---------------------------- MODULE Spec2Model ----------------------------
(***************************************************************************)
(* A model of the Redis-compatible store: the sharded lock tables          *)
(* (lock.Locks and dict.ConcurrentDict), the append-only-file persister    *)
(* (aof.Persister), the sorted set (sortedset.SortedSet over skiplist),    *)
(* the two lists (list.QuickList and list.LinkedList), the routing of a    *)
(* key to its slot and the rebalance plan of the cluster.                  *)
(* Each subsystem has its own specification over its own variables; the    *)
(* variables of the other subsystems stay at their initial value.          *)
(***************************************************************************)
EXTENDS Integers, Sequences, FiniteSets, TLC

VARIABLES
  \* ---- lock tables (lock.Locks / dict.ConcurrentDict) ----
  impl,      \* which lock table the run exercises: "Locks" or "ConcurrentDict"
  table,     \* shard index -> sync.RWMutex state [w, rc]
  gpc,       \* goroutine -> position
  gW, gR,    \* goroutine -> writeKeys / readKeys of its call
  gTodo,     \* goroutine -> shard indices its loop has still to visit
  gAcq,      \* goroutine -> <<index, mode>> acquired, in order (history)
  gRel,      \* goroutine -> <<index, mode>> released, in order (history)
  fatal      \* the runtime's "unlock of unlocked mutex" fatal error

lockVars == <<impl, table, gpc, gW, gR, gTodo, gAcq, gRel, fatal>>

VARIABLES
  \* ---- aof.Persister ----
  aofFsync,   \* the fsync policy: "always", "everysec" or "no"
  aofFile,    \* the bytes of the file at aofFilename
  fileOpen,   \* persister.aofFile is open
  unsynced,   \* the file holds writes that no Sync() has made durable
  aofChan,    \* the payloads buffered in aofChan, oldest first
  chanClosed, \* close(aofChan) was called
  currentDB,  \* persister.currentDB
  cpc,        \* client -> "idle" or "calling" (inside SaveCmdLine)
  cPayload,   \* client -> the payload of its SaveCmdLine call
  issued,     \* number of SaveCmdLine calls made so far (history)
  returned,   \* values whose SaveCmdLine call has returned (history)
  before,     \* value -> values whose call had returned when it was called (history)
  logged,     \* payloads in the order writeAof wrote them (history)
  wpc,        \* listenCmd goroutine: "loop", "writing", "finishing", "exited"
  wPayload,   \* the payload listenCmd has taken from the channel
  closePc,    \* Close: "idle", "waiting", "returned"
  ctxDone,    \* persister.cancel() was called
  fsyncPc,    \* fsyncEverySecond goroutine: "none", "select", "exited"
  rwPc,       \* Rewrite: "idle", "started", "rewritten", "finished"
  rwCtx       \* the RewriteCtx: [tmpFile, fileSize, dbIdx]

aofVars == <<aofFsync, aofFile, fileOpen, unsynced, aofChan, chanClosed,
             currentDB, cpc, cPayload, issued, returned, before, logged,
             wpc, wPayload, closePc, ctxDone, fsyncPc, rwPc, rwCtx>>

VARIABLES
  \* ---- sortedset.SortedSet ----
  zsetDict,   \* sortedSet.dict: member -> Element
  heap,       \* node address -> node [Member, Score, backward, level]
  skiplist,   \* sortedSet.skiplist: [header, tail, length, level]
  zsetRet     \* the last call on the sorted set and what it returned

zsetVars == <<zsetDict, heap, skiplist, zsetRet>>

VARIABLES
  \* ---- list.QuickList and list.LinkedList, given the same calls ----
  quickList,  \* the QuickList: [data, size]
  linkedList, \* the LinkedList: [heap, first, last, size]
  listRet     \* the last call on the lists and what it returned

listVars == <<quickList, linkedList, listRet>>

VARIABLES
  \* ---- cluster/core: routing of a key ----
  routeKey,   \* the key
  routeRet    \* the last call on the key and what it returned

routeVars == <<routeKey, routeRet>>

VARIABLES
  \* ---- cluster/core: makeRebalancePlan ----
  planNodes,    \* the node ids GetNodes() returned, in order
  fsmNode2Slot, \* fsm.Node2Slot: node id -> the slots it owns
  plan          \* the call of makeRebalancePlan: its position and its locals

planVars == <<planNodes, fsmNode2Slot, plan>>

VARIABLES
  \* ---- cluster/core: execMigrationChangeRoute on the leader ----
  changeRoute,   \* the call: its position, what Propose returned, the queries sent and the reply
  peerCommitted  \* node -> the committed index the node reports

commitVars == <<changeRoute, peerCommitted>>

VARIABLES
  \* ---- dict.ConcurrentDict and dict.SimpleDict ----
  dictTable,     \* dict.table: shard index -> [m, w, r], the map and the RWMutex of the shard
  dictCount,     \* dict.count
  dictProc,      \* goroutine -> its call on the dict: position, arguments, result
  dictScan,      \* the scan in progress: DictScan calls and what they returned
  dictRand,      \* the RandomDistinctKeys call in progress
  simpleDict     \* the SimpleDict given the same calls: [m, result]

dictVars == <<dictTable, dictCount, dictProc, dictScan, dictRand, simpleDict>>

VARIABLES
  \* ---- tcp.ListenAndServe ----
  server         \* the accept loop, the goroutine that waits for the shutdown, the listener, errCh and the handlers

serverVars == <<server>>

VARIABLES
  \* ---- aof.Persister: writeAof and the listeners ----
  fan            \* the goroutines inside writeAof, persister.buffer, the lock, the file and what the listeners received

fanVars == <<fan>>

VARIABLES
  \* ---- aof.Persister: a second Rewrite call ----
  rw2            \* the second Rewrite: its position and its RewriteCtx

overlapVars == <<rw2>>

VARIABLES
  \* ---- aof.Persister: Rewrite with writes to the temp file that fail ----
  gen            \* the Rewrite call: its position in generateAof, the temp file, the loaded database and the live file

genVars == <<gen>>

VARIABLES
  \* ---- cluster/core: doRebalance starting the tasks of a plan ----
  migrate        \* the loop of doRebalance over pendingTasks: the task in hand, the position in triggerMigrationTask and what became of each task

migrateVars == <<migrate>>

VARIABLES
  \* ---- dict.ConcurrentDict: Clear among concurrent mutators ----
  clr            \* a ConcurrentDict whose table is replaced by Clear: the shards of the old and of the new table, dict.table, dict.count, the goroutines in a mutator and the one in Clear

clearVars == <<clr>>

VARIABLES
  \* ---- cluster/core: slotsManager.getSlot ----
  ssm            \* the slotsManager: its slots map, its RWMutex, the slotStatus objects created, and the goroutines inside getSlot

slotsVars == <<ssm>>

VARIABLES
  \* ---- tcp: EchoHandler.Handle and EchoHandler.Close ----
  echo           \* the EchoHandler: its closing flag and activeConn, the connections passed to Handle with the position of each Handle, and the position of Close

echoVars == <<echo>>

vars == <<lockVars, aofVars, zsetVars, listVars, routeVars, planVars, commitVars, dictVars, serverVars, fanVars, overlapVars, genVars, migrateVars, clearVars, slotsVars, echoVars>>

-----------------------------------------------------------------------------
(* Generic helpers *)

Range(s) == {s[i] : i \in 1..Len(s)}

Reverse(s) == [i \in 1..Len(s) |-> s[Len(s) + 1 - i]]

Min(S) == CHOOSE x \in S : \A y \in S : x <= y

Max(S) == CHOOSE x \in S : \A y \in S : x >= y

RECURSIVE SortAsc(_)
SortAsc(S) == IF S = {} THEN <<>> ELSE <<Min(S)>> \o SortAsc(S \ {Min(S)})

RECURSIVE SortDesc(_)
SortDesc(S) == IF S = {} THEN <<>> ELSE <<Max(S)>> \o SortDesc(S \ {Max(S)})

RECURSIVE Pow2(_)
Pow2(n) == IF n = 0 THEN 1 ELSE 2 * Pow2(n - 1)

\* bitwise operations on naturals, bit by bit
RECURSIVE BitAnd(_, _)
BitAnd(x, y) ==
  IF x = 0 \/ y = 0 THEN 0
  ELSE ((x % 2) * (y % 2)) + 2 * BitAnd(x \div 2, y \div 2)

RECURSIVE BitXor(_, _)
BitXor(x, y) ==
  IF x = 0 THEN y
  ELSE IF y = 0 THEN x
  ELSE (((x % 2) + (y % 2)) % 2) + 2 * BitXor(x \div 2, y \div 2)

-----------------------------------------------------------------------------
(* Bounds of the lock model *)

\* the tables have 2^TableBits shards
TableBits == 2

\* goroutines calling RWLocks concurrently
NumGoroutines == 2

\* longest writeKeys / readKeys slice of a call
MaxKeySlice == 1

tableSize == Pow2(TableBits)

Goroutines == 1..NumGoroutines

\* keys are byte strings: "g", "a", "b"
LockKeys == {<<103>>, <<97>>, <<98>>}

KeySlices == UNION {[1..n -> LockKeys] : n \in 0..MaxKeySlice}

-----------------------------------------------------------------------------
(* fnv32: 32-bit arithmetic on two 16-bit limbs <<hi, lo>> *)

prime32Hi == 256

prime32Lo == 403

offsetHi == 33052

offsetLo == 40389

\* hash *= prime32 (mod 2^32), then hash ^= byte
FnvStep(h, byte) ==
  LET lo  == h[2] * prime32Lo
      hi  == (h[2] * prime32Hi + h[1] * prime32Lo + (lo \div 65536)) % 65536
      lo2 == lo % 65536
  IN  <<hi, BitXor(lo2, byte)>>

RECURSIVE FnvFrom(_, _, _)
FnvFrom(h, key, i) ==
  IF i > Len(key) THEN h ELSE FnvFrom(FnvStep(h, key[i]), key, i + 1)

fnv32(key) == FnvFrom(<<offsetHi, offsetLo>>, key, 1)

\* hashCode & (tableSize-1); the table has at most 2^16 shards, so only the
\* low limb takes part
Locks_spread(hashCode) == BitAnd(hashCode[2], tableSize - 1)

Dict_spread(key) ==
  IF tableSize = 1 THEN 0 ELSE BitAnd(tableSize - 1, fnv32(key)[2])


\* index := locks.spread(fnv32(key)) and index := dict.spread(key), tabulated
\* over the keys of the model
Locks_index == [key \in LockKeys |-> Locks_spread(fnv32(key))]

Dict_index == [key \in LockKeys |-> Dict_spread(key)]

-----------------------------------------------------------------------------
(* lock.Locks and dict.ConcurrentDict: the order in which shards are locked *)

\* the distinct shard indices of keys (indexMap)
Locks_indexMap(keys) == {Locks_index[keys[i]] : i \in 1..Len(keys)}

Dict_indexMap(keys) == {Dict_index[keys[i]] : i \in 1..Len(keys)}

\* Locks.toLockIndices: indices := make([]uint32, len(indexMap)) already holds
\* len(indexMap) zeros when the map's indices are appended to it; the slice is
\* then sorted ascending (reverse = FALSE) or descending (reverse = TRUE)
Locks_toLockIndices(keys, reverse) ==
  LET indexMap == Locks_indexMap(keys)
      zeros    == [i \in 1..Cardinality(indexMap) |-> 0]
  IN  IF reverse THEN SortDesc(indexMap) \o zeros
                 ELSE zeros \o SortAsc(indexMap)

\* the distinct elements of s from position i on, in order of first occurrence
RECURSIVE FirstOccurrences(_, _, _)
FirstOccurrences(s, i, seen) ==
  IF i > Len(s) THEN <<>>
  ELSE IF s[i] \in seen THEN FirstOccurrences(s, i + 1, seen)
  ELSE <<s[i]>> \o FirstOccurrences(s, i + 1, seen \cup {s[i]})

\* mutant: the sort.Slice call is missing, the indices keep the keys' order
Dict_toLockIndices_unsorted(keys, reverse) ==
  LET inOrder == FirstOccurrences([i \in 1..Len(keys) |-> Dict_index[keys[i]]], 1, {})
  IN  IF reverse THEN Reverse(inOrder) ELSE inOrder

\* ConcurrentDict.toLockIndices: indices := make([]uint32, 0, len(indexMap))
Dict_toLockIndices(keys, reverse) ==
  LET indexMap == Dict_indexMap(keys)
  IN  IF reverse THEN SortDesc(indexMap) ELSE SortAsc(indexMap)

\* the shards locked for writing (writeIndexSet)
Locks_writeIndexSet(writeKeys) == Locks_indexMap(writeKeys)

\* mutant: writeIndexSet is never filled, every shard is read-locked
Dict_writeIndexSet_empty(writeKeys) == {}

Dict_writeIndexSet(writeKeys) == Dict_indexMap(writeKeys)

\* RWLocks: keys := append(writeKeys, readKeys...); toLockIndices(keys, false)
Locks_RWLocks_indices(writeKeys, readKeys) ==
  Locks_toLockIndices(writeKeys \o readKeys, FALSE)

Dict_RWLocks_indices(writeKeys, readKeys) ==
  Dict_toLockIndices(writeKeys \o readKeys, FALSE)

\* mutant: the unlock walks the shards in the locking order
Locks_RWUnLock_ascending(writeKeys, readKeys) ==
  Locks_toLockIndices(writeKeys \o readKeys, FALSE)

\* RWUnLock / RWUnLocks: toLockIndices(keys, true)
Locks_RWUnLock_indices(writeKeys, readKeys) ==
  Locks_toLockIndices(writeKeys \o readKeys, TRUE)

Dict_RWUnLocks_indices(writeKeys, readKeys) ==
  Dict_toLockIndices(writeKeys \o readKeys, TRUE)

LockIndices(W, R) ==
  IF impl = "Locks" THEN Locks_RWLocks_indices(W, R) ELSE Dict_RWLocks_indices(W, R)

UnlockIndices(W, R) ==
  IF impl = "Locks" THEN Locks_RWUnLock_indices(W, R) ELSE Dict_RWUnLocks_indices(W, R)

WriteIndexSet(W) ==
  IF impl = "Locks" THEN Locks_writeIndexSet(W) ELSE Dict_writeIndexSet(W)

\* the shards some key of the slice maps to, as the table in use spreads them
ShardsOf(keys) ==
  IF impl = "Locks" THEN Locks_indexMap(keys) ELSE Dict_indexMap(keys)

-----------------------------------------------------------------------------
(* sync.RWMutex: w is the writers' inner mutex (held by a writer from the    *)
(* moment Lock announces itself, which also stops new readers), rc the       *)
(* number of read locks held                                                 *)

FreeMutex == [w |-> 0, rc |-> 0]

\* RLock returns only when no writer holds or waits for the mutex
CanRLock(mu) == mu.w = 0

\* Lock first takes the writers' mutex ...
CanLockAnnounce(mu) == mu.w = 0

\* ... and then waits for the readers to leave
CanLockEnter(mu) == mu.rc = 0

LockInit ==
  /\ impl \in {"Locks", "ConcurrentDict"}
  /\ table = [i \in 0..(tableSize - 1) |-> FreeMutex]
  /\ gpc = [g \in Goroutines |-> "idle"]
  /\ gW = [g \in Goroutines |-> <<>>]
  /\ gR = [g \in Goroutines |-> <<>>]
  /\ gTodo = [g \in Goroutines |-> <<>>]
  /\ gAcq = [g \in Goroutines |-> <<>>]
  /\ gRel = [g \in Goroutines |-> <<>>]
  /\ fatal = FALSE

\* the position after one more index of the locking loop is done
AfterLock(todo) == IF todo = <<>> THEN "held" ELSE "locking"

AfterUnlock(todo) == IF todo = <<>> THEN "done" ELSE "unlocking"

\* a goroutine calls RWLocks(W, R) and computes the locking order
RWLocksCall(g) ==
  /\ gpc[g] = "idle"
  /\ ~fatal
  /\ \E W \in KeySlices, R \in KeySlices :
       /\ gW' = [gW EXCEPT ![g] = W]
       /\ gR' = [gR EXCEPT ![g] = R]
       /\ gTodo' = [gTodo EXCEPT ![g] = LockIndices(W, R)]
       /\ gpc' = [gpc EXCEPT ![g] = AfterLock(LockIndices(W, R))]
  /\ UNCHANGED <<impl, table, gAcq, gRel, fatal>>

\* the loop's mu.RLock() on a shard outside writeIndexSet
RLockStep(g) ==
  /\ gpc[g] = "locking"
  /\ ~fatal
  /\ LET index == Head(gTodo[g]) IN
       /\ index \notin WriteIndexSet(gW[g])
       /\ CanRLock(table[index])
       /\ table' = [table EXCEPT ![index].rc = @ + 1]
       /\ gAcq' = [gAcq EXCEPT ![g] = Append(@, <<index, "r">>)]
       /\ gTodo' = [gTodo EXCEPT ![g] = Tail(@)]
       /\ gpc' = [gpc EXCEPT ![g] = AfterLock(Tail(gTodo[g]))]
  /\ UNCHANGED <<impl, gW, gR, gRel, fatal>>

\* the loop's mu.Lock() on a shard of writeIndexSet: the writer announces itself
LockAnnounceStep(g) ==
  /\ gpc[g] = "locking"
  /\ ~fatal
  /\ LET index == Head(gTodo[g]) IN
       /\ index \in WriteIndexSet(gW[g])
       /\ CanLockAnnounce(table[index])
       /\ table' = [table EXCEPT ![index].w = 1]
       /\ gpc' = [gpc EXCEPT ![g] = "draining"]
  /\ UNCHANGED <<impl, gW, gR, gTodo, gAcq, gRel, fatal>>

\* mu.Lock() returns once the readers have left
LockEnterStep(g) ==
  /\ gpc[g] = "draining"
  /\ ~fatal
  /\ LET index == Head(gTodo[g]) IN
       /\ CanLockEnter(table[index])
       /\ gAcq' = [gAcq EXCEPT ![g] = Append(@, <<index, "w">>)]
       /\ gTodo' = [gTodo EXCEPT ![g] = Tail(@)]
       /\ gpc' = [gpc EXCEPT ![g] = AfterLock(Tail(gTodo[g]))]
  /\ UNCHANGED <<impl, table, gW, gR, gRel, fatal>>

\* the goroutine calls the matching unlock with the same slices
RWUnLockCall(g) ==
  /\ gpc[g] = "held"
  /\ ~fatal
  /\ gTodo' = [gTodo EXCEPT ![g] = UnlockIndices(gW[g], gR[g])]
  /\ gpc' = [gpc EXCEPT ![g] = AfterUnlock(UnlockIndices(gW[g], gR[g]))]
  /\ UNCHANGED <<impl, table, gW, gR, gAcq, gRel, fatal>>

\* the unlock loop: mu.Unlock() on a shard of writeIndexSet, else mu.RUnlock();
\* unlocking a mutex that is not locked is a fatal error of the runtime
UnlockStep(g) ==
  /\ gpc[g] = "unlocking"
  /\ ~fatal
  /\ LET index == Head(gTodo[g])
         w     == index \in WriteIndexSet(gW[g])
         bad   == IF w THEN table[index].w = 0 ELSE table[index].rc = 0
     IN
       /\ fatal' = bad
       /\ table' = IF bad THEN table
                   ELSE IF w THEN [table EXCEPT ![index].w = 0]
                   ELSE [table EXCEPT ![index].rc = @ - 1]
       /\ gRel' = [gRel EXCEPT ![g] = Append(@, <<index, IF w THEN "w" ELSE "r">>)]
       /\ gTodo' = [gTodo EXCEPT ![g] = Tail(@)]
       /\ gpc' = [gpc EXCEPT ![g] = AfterUnlock(Tail(gTodo[g]))]
  /\ UNCHANGED <<impl, gW, gR, gAcq>>


-----------------------------------------------------------------------------
(* Properties of the lock tables *)

Count(seq, x) == Cardinality({i \in 1..Len(seq) : seq[i] = x})

\* g waits in RWLocks for a mutex it cannot get in the current state
Blocked(g) ==
  \/ /\ gpc[g] = "locking"
     /\ table[Head(gTodo[g])].w # 0
  \/ /\ gpc[g] = "draining"
     /\ table[Head(gTodo[g])].rc # 0

\* some goroutine waits in RWLocks and no goroutine can ever move again
Deadlocked ==
  /\ \E g \in Goroutines : Blocked(g)
  /\ \A g \in Goroutines : gpc[g] \in {"idle", "done"} \/ Blocked(g)

InRWLocks(g) == gpc[g] \in {"locking", "draining"}

Returned(g) == gpc[g] \in {"held", "unlocking", "done"}

\* what RWLocks is documented to acquire: each touched shard once, ascending,
\* write mode exactly for the shards of the write keys
ExpectedAcq(g) ==
  LET idx == SortAsc(ShardsOf(gW[g] \o gR[g]))
  IN  [i \in 1..Len(idx) |->
         <<idx[i], IF idx[i] \in ShardsOf(gW[g]) THEN "w" ELSE "r">>]

\* C2: lock.Locks is deadlock-free: no goroutine (not even a single one) is
\* ever left waiting forever inside RWLocks.
C2_LocksDeadlockFree == impl = "Locks" => ~Deadlocked

\* C3: ConcurrentDict's multi-key locking is deadlock-free, every RWLocks call
\* eventually returns, and each call has acquired every touched shard mutex
\* exactly once in ascending shard-index order.
C3_DictDeadlockFree ==
  /\ [](impl = "ConcurrentDict" =>
          /\ ~Deadlocked
          /\ ~fatal
          /\ \A g \in Goroutines : Returned(g) => gAcq[g] = ExpectedAcq(g))
  /\ \A g \in Goroutines :
       (impl = "ConcurrentDict" /\ InRWLocks(g)) ~> Returned(g)

\* two goroutines of the ConcurrentDict run lock two shards each, in opposite
\* key order, and both have returned
C3_Witness ==
  /\ impl = "ConcurrentDict"
  /\ \A g \in Goroutines : Returned(g) /\ Len(gAcq[g]) >= 2
  /\ \E g, h \in Goroutines : gW[g] = gR[h] /\ gR[g] = gW[h] /\ gW[g] # gR[g]

\* C4: Locks.RWLocks acquires exactly one lock per distinct touched shard and
\* no other, a write lock iff a write key maps to the shard, in strictly
\* ascending shard order.
C4_LocksExactlyOnce ==
  \A g \in Goroutines :
    (impl = "Locks" /\ Returned(g)) => gAcq[g] = ExpectedAcq(g)

\* C5: mutual exclusion: two goroutines are never both between the return of
\* RWLocks and the matching unlock when the write keys of one share a shard
\* with any key (write or read) of the other.
C5_MutualExclusion ==
  \A g, h \in Goroutines :
    (g # h /\ gpc[g] = "held" /\ gpc[h] = "held")
      => ShardsOf(gW[g]) \cap ShardsOf(gW[h] \o gR[h]) = {}

\* two critical sections overlap (they only share read shards) while one of
\* them also holds a write lock
C5_Witness ==
  \E g, h \in Goroutines :
    /\ g # h /\ gpc[g] = "held" /\ gpc[h] = "held"
    /\ ShardsOf(gR[g]) \cap ShardsOf(gR[h]) # {}
    /\ gW[g] # <<>>

\* read locks g still holds on shard s, by its history
ReadHeld(g, s) == Count(gAcq[g], <<s, "r">>) - Count(gRel[g], <<s, "r">>)

WriteHeld(g, s) == Count(gAcq[g], <<s, "w">>) - Count(gRel[g], <<s, "w">>)

RECURSIVE SumOver(_, _, _)
SumOver(S, s, n) ==
  IF S = {} THEN n
  ELSE LET g == CHOOSE x \in S : TRUE
       IN  SumOver(S \ {g}, s, n + ReadHeld(g, s))

\* every mutex is exactly as locked as the calls still in progress hold it
TableMatchesHolds ==
  \A s \in DOMAIN table :
    /\ table[s].rc = SumOver(Goroutines, s, 0)
    /\ table[s].w =
         IF \E g \in Goroutines :
              \/ WriteHeld(g, s) > 0
              \/ gpc[g] = "draining" /\ Head(gTodo[g]) = s
         THEN 1 ELSE 0

\* C6: the matching unlock releases the shard locks in exactly the reverse of
\* the order RWLocks acquired them, each in the mode it was acquired in, and
\* leaves every mutex as it was before RWLocks (nothing of the call stays
\* locked, nothing is unlocked that was not locked).
C6_ReverseRelease ==
  /\ ~fatal
  /\ TableMatchesHolds
  /\ \A g \in Goroutines :
       gpc[g] = "done" =>
         /\ gRel[g] = Reverse(gAcq[g])
         /\ \A s \in DOMAIN table : ReadHeld(g, s) = 0 /\ WriteHeld(g, s) = 0

\* a call of each table that locked a write and a read shard has been undone
C6_Witness ==
  \E g \in Goroutines :
    /\ gpc[g] = "done"
    /\ \E i, j \in 1..Len(gAcq[g]) : gAcq[g][i][2] = "w" /\ gAcq[g][j][2] = "r"
    /\ \A s \in DOMAIN table : table[s] = FreeMutex

-----------------------------------------------------------------------------
(* aof.Persister: bounds and the wire format *)

\* config.Properties.Databases
NumDatabases == 2

\* goroutines calling SaveCmdLine
NumClients == 2

\* SaveCmdLine calls in a run
MaxCmds == 3

\* capacity of aofChan
aofQueueSize == 1048576

Clients == 1..NumClients

DBs == 0..(NumDatabases - 1)

AofKeys == {"k"}

\* strconv.Itoa / strconv.Atoi on the numbers of the model
Digits == <<"0", "1", "2", "3", "4", "5", "6", "7", "8", "9">>

Itoa(n) == Digits[n + 1]

IsNumber(str) == \E n \in 0..9 : Digits[n + 1] = str

Atoi(str) == CHOOSE n \in 0..9 : Digits[n + 1] = str

\* strings.ToLower on the command names in use
ToLower(name) ==
  CASE name = "SELECT" -> "select"
    [] name = "SET" -> "set"
    [] name = "RPUSH" -> "rpush"
    [] OTHER -> name

\* utils.ToCmdLine("SELECT", strconv.Itoa(i))
SelectCmd(i) == <<"SELECT", Itoa(i)>>

\* protocol.MakeMultiBulkReply(args).ToBytes(): "*<n>" and then "$<arg>" per
\* argument; the file is measured in these units
ToBytes(cmdLine) ==
  <<<<"*", Len(cmdLine)>>>> \o [j \in 1..Len(cmdLine) |-> <<"$", cmdLine[j]>>]

\* parser.ParseStream: the multi-bulk commands of a byte stream, to its end;
\* a unit that does not start a command is a protocol error and is skipped, a
\* command cut short by the end of the stream is dropped
RECURSIVE ParseStream(_, _)
ParseStream(bytes, i) ==
  IF i > Len(bytes) THEN <<>>
  ELSE IF bytes[i][1] # "*" THEN ParseStream(bytes, i + 1)
  ELSE LET n == bytes[i][2] IN
       IF i + n > Len(bytes) THEN <<>>
       ELSE <<[j \in 1..n |-> bytes[i + j][2]]>> \o ParseStream(bytes, i + n + 1)

\* io.LimitReader(file, maxBytes)
LimitReader(bytes, maxBytes) ==
  SubSeq(bytes, 1, IF maxBytes < Len(bytes) THEN maxBytes ELSE Len(bytes))

-----------------------------------------------------------------------------
(* The database engine behind the persister: SELECT, SET and RPUSH *)

NoEntity == [type |-> "none"]

EmptyDB == [i \in DBs |-> [key \in AofKeys |-> NoEntity]]

\* a connection's selected database and the engine's data
NewFakeConn == [db |-> EmptyDB, sel |-> 0]

\* db.Exec(conn, args): the state after the command (an error reply leaves
\* it unchanged)
Exec(st, args) ==
  LET name == ToLower(args[1]) IN
  CASE name = "select" ->
         IF Len(args) = 2 /\ IsNumber(args[2]) /\ Atoi(args[2]) \in DBs
         THEN [st EXCEPT !.sel = Atoi(args[2])] ELSE st
    [] name = "set" ->
         IF Len(args) = 3
         THEN [st EXCEPT !.db[st.sel][args[2]] = [type |-> "string", val |-> args[3]]]
         ELSE st
    [] name = "rpush" ->
         IF Len(args) < 3 THEN st
         ELSE LET old == st.db[st.sel][args[2]]
                  new == SubSeq(args, 3, Len(args))
              IN  IF old.type = "none"
                  THEN [st EXCEPT !.db[st.sel][args[2]] = [type |-> "list", val |-> new]]
                  ELSE IF old.type = "list"
                  THEN [st EXCEPT !.db[st.sel][args[2]] =
                                     [type |-> "list", val |-> old.val \o new]]
                  ELSE st
    [] OTHER -> st

-----------------------------------------------------------------------------
(* aof.Persister: LoadAof, writeAof and the rewrite *)

\* the loop of LoadAof over the parsed commands: each is executed on the fake
\* connection, and a SELECT with a numeric argument sets persister.currentDB
RECURSIVE LoadCmds(_, _, _)
LoadCmds(st, cmds, i) ==
  IF i > Len(cmds) THEN st
  ELSE LET args == cmds[i]
           ran  == Exec([db |-> st.db, sel |-> st.sel], args)
           cur  == IF ToLower(args[1]) = "select" /\ Len(args) >= 2 /\ IsNumber(args[2])
                   THEN Atoi(args[2]) ELSE st.currentDB
       IN  LoadCmds([db |-> ran.db, sel |-> ran.sel, currentDB |-> cur], cmds, i + 1)

\* LoadAof(maxBytes) on a persister with an empty database: the file holds no
\* RDB preamble (LoadRDB fails and the file is read from its start); the
\* reader is limited to maxBytes only when maxBytes > 0
LoadAof(bytes, maxBytes) ==
  LET reader == IF maxBytes > 0 THEN LimitReader(bytes, maxBytes) ELSE bytes
  IN  LoadCmds([db |-> EmptyDB, sel |-> 0, currentDB |-> 0], ParseStream(reader, 1), 1)

\* EntityToCmd: SET key value for a string, RPUSH key e1 e2 ... for a list
EntityToCmd(key, entity) ==
  IF entity.type = "string" THEN <<"SET", key, entity.val>>
  ELSE <<"RPUSH", key>> \o entity.val

\* the orders in which db.ForEach may visit the keys present in a database
KeyOrders(data) ==
  LET present == {key \in AofKeys : data[key].type # "none"}
      n       == Cardinality(present)
  IN  {ord \in [1..n -> present] : \A a, b \in 1..n : ord[a] = ord[b] => a = b}

RECURSIVE DumpKeys(_, _, _)
DumpKeys(data, ord, i) ==
  IF i > Len(ord) THEN <<>>
  ELSE ToBytes(EntityToCmd(ord[i], data[ord[i]])) \o DumpKeys(data, ord, i + 1)

\* generateAof's loop from database i on: SELECT i, then one command per key
RECURSIVE DumpFrom(_, _)
DumpFrom(db, i) ==
  IF i >= NumDatabases THEN {<<>>}
  ELSE {ToBytes(SelectCmd(i)) \o DumpKeys(db[i], ord, 1) \o rest :
          ord \in KeyOrders(db[i]), rest \in DumpFrom(db, i + 1)}

\* generateAof(ctx): the contents the temp file may get (the handler loads
\* the live file with LoadAof(int(ctx.fileSize)) into a fresh database)
generateAof(fileSize, bytes) == DumpFrom(LoadAof(bytes, fileSize).db, 0)

\* mutant: the SELECT is written but currentDB is not updated
writeAof_currentDB_stale(cur, p) == cur

\* writeAof: persister.currentDB after the payload
writeAof_currentDB(cur, p) == IF p.dbIndex # cur THEN p.dbIndex ELSE cur

\* writeAof: the file after the payload (a SELECT first when the payload's
\* database is not currentDB); writes to a closed file fail
writeAof_file(bytes, cur, p) ==
  IF ~fileOpen THEN bytes
  ELSE IF p.dbIndex # cur
  THEN bytes \o ToBytes(SelectCmd(p.dbIndex)) \o ToBytes(p.cmdLine)
  ELSE bytes \o ToBytes(p.cmdLine)

\* writeAof(p), all of it under pausingAof
writeAof(p) ==
  /\ aofFile' = writeAof_file(aofFile, currentDB, p)
  /\ currentDB' = IF fileOpen THEN writeAof_currentDB(currentDB, p) ELSE currentDB
  /\ logged' = IF fileOpen THEN Append(logged, p) ELSE logged
  /\ unsynced' = IF fileOpen THEN aofFsync # "always" ELSE unsynced

\* mutant: the payload is put in front of the queue
ChanSend_front(chan, p) == <<p>> \o chan

\* persister.aofChan <- p
ChanSend(chan, p) == Append(chan, p)

\* mutant: the loop ends as soon as the channel is closed
ChanDrained_onClose == chanClosed

\* for p := range persister.aofChan ends: the channel is closed and empty
ChanDrained == chanClosed /\ aofChan = <<>>

AofInit ==
  /\ aofFsync \in {"always", "everysec", "no"}
  /\ aofFile = <<>>
  /\ fileOpen = TRUE
  /\ unsynced = FALSE
  /\ aofChan = <<>>
  /\ chanClosed = FALSE
  /\ currentDB = 0
  /\ cpc = [c \in Clients |-> "idle"]
  /\ cPayload = [c \in Clients |-> [cmdLine |-> <<>>, dbIndex |-> 0]]
  /\ issued = 0
  /\ returned = {}
  /\ before = <<>>
  /\ logged = <<>>
  /\ wpc = "loop"
  /\ wPayload = [cmdLine |-> <<>>, dbIndex |-> 0]
  /\ closePc = "idle"
  /\ ctxDone = FALSE
  /\ fsyncPc = IF aofFsync = "everysec" THEN "select" ELSE "none"
  /\ rwPc = "idle"
  /\ rwCtx = [tmpFile |-> <<>>, fileSize |-> 0, dbIdx |-> 0]

\* a client enters SaveCmdLine(dbIndex, cmdLine); the value written by the
\* command is the number of the call, so every command is told apart
SaveCmdLineCall(c) ==
  /\ cpc[c] = "idle"
  /\ closePc = "idle"
  /\ issued < MaxCmds
  /\ \E dbIndex \in DBs, name \in {"SET", "RPUSH"}, key \in AofKeys :
       cPayload' = [cPayload EXCEPT ![c] =
                      [cmdLine |-> <<name, key, Itoa(issued + 1)>>, dbIndex |-> dbIndex]]
  /\ issued' = issued + 1
  /\ before' = Append(before, returned)
  /\ cpc' = [cpc EXCEPT ![c] = "calling"]
  /\ UNCHANGED <<aofFsync, aofFile, fileOpen, unsynced, aofChan, chanClosed,
                 currentDB, returned, logged, wpc, wPayload, closePc, ctxDone,
                 fsyncPc, rwPc, rwCtx>>

\* SaveCmdLine under the always policy: writeAof in the caller's goroutine
SaveCmdLineWrite(c) ==
  /\ cpc[c] = "calling"
  /\ aofFsync = "always"
  /\ writeAof(cPayload[c])
  /\ returned' = returned \cup {cPayload[c].cmdLine[3]}
  /\ cpc' = [cpc EXCEPT ![c] = "idle"]
  /\ UNCHANGED <<aofFsync, fileOpen, aofChan, chanClosed, cPayload, issued,
                 before, wpc, wPayload, closePc, ctxDone, fsyncPc, rwPc, rwCtx>>

\* SaveCmdLine under the other policies: the payload goes to the channel
SaveCmdLineSend(c) ==
  /\ cpc[c] = "calling"
  /\ aofFsync # "always"
  /\ ~chanClosed
  /\ Len(aofChan) < aofQueueSize
  /\ aofChan' = ChanSend(aofChan, cPayload[c])
  /\ returned' = returned \cup {cPayload[c].cmdLine[3]}
  /\ cpc' = [cpc EXCEPT ![c] = "idle"]
  /\ UNCHANGED <<aofFsync, aofFile, fileOpen, unsynced, chanClosed, currentDB,
                 cPayload, issued, before, logged, wpc, wPayload, closePc,
                 ctxDone, fsyncPc, rwPc, rwCtx>>

\* listenCmd receives the oldest payload of the channel
ListenRecv ==
  /\ wpc = "loop"
  /\ aofChan # <<>>
  /\ wPayload' = Head(aofChan)
  /\ aofChan' = Tail(aofChan)
  /\ wpc' = "writing"
  /\ UNCHANGED <<aofFsync, aofFile, fileOpen, unsynced, chanClosed, currentDB,
                 cpc, cPayload, issued, returned, before, logged, closePc,
                 ctxDone, fsyncPc, rwPc, rwCtx>>

\* listenCmd writes the payload it holds
ListenWrite ==
  /\ wpc = "writing"
  /\ writeAof(wPayload)
  /\ wpc' = "loop"
  /\ UNCHANGED <<aofFsync, fileOpen, aofChan, chanClosed, cpc, cPayload, issued,
                 returned, before, wPayload, closePc, ctxDone, fsyncPc, rwPc, rwCtx>>

\* listenCmd leaves its loop and offers aofFinished
ListenExit ==
  /\ wpc = "loop"
  /\ ChanDrained
  /\ wpc' = "finishing"
  /\ UNCHANGED <<aofFsync, aofFile, fileOpen, unsynced, aofChan, chanClosed,
                 currentDB, cpc, cPayload, issued, returned, before, logged,
                 wPayload, closePc, ctxDone, fsyncPc, rwPc, rwCtx>>

\* Close: close(persister.aofChan); it is called once no SaveCmdLine and no
\* Rewrite is in progress
CloseCall ==
  /\ closePc = "idle"
  /\ \A c \in Clients : cpc[c] = "idle"
  /\ rwPc \in {"idle", "finished"}
  /\ chanClosed' = TRUE
  /\ closePc' = "waiting"
  /\ UNCHANGED <<aofFsync, aofFile, fileOpen, unsynced, aofChan, currentDB,
                 cpc, cPayload, issued, returned, before, logged, wpc, wPayload,
                 ctxDone, fsyncPc, rwPc, rwCtx>>

\* Close: <-persister.aofFinished (a rendezvous with listenCmd), then
\* aofFile.Close() and persister.cancel()
CloseReturn ==
  /\ closePc = "waiting"
  /\ wpc = "finishing"
  /\ wpc' = "exited"
  /\ fileOpen' = FALSE
  /\ ctxDone' = TRUE
  /\ closePc' = "returned"
  /\ UNCHANGED <<aofFsync, aofFile, unsynced, aofChan, chanClosed, currentDB,
                 cpc, cPayload, issued, returned, before, logged, wPayload,
                 fsyncPc, rwPc, rwCtx>>

\* fsyncEverySecond: case <-ticker.C: persister.Fsync()
FsyncTick ==
  /\ fsyncPc = "select"
  /\ unsynced' = IF fileOpen THEN FALSE ELSE unsynced
  /\ UNCHANGED <<aofFsync, aofFile, fileOpen, aofChan, chanClosed, currentDB,
                 cpc, cPayload, issued, returned, before, logged, wpc, wPayload,
                 closePc, ctxDone, fsyncPc, rwPc, rwCtx>>

\* fsyncEverySecond: case <-persister.ctx.Done(): return
FsyncExit ==
  /\ fsyncPc = "select"
  /\ ctxDone
  /\ fsyncPc' = "exited"
  /\ UNCHANGED <<aofFsync, aofFile, fileOpen, unsynced, aofChan, chanClosed,
                 currentDB, cpc, cPayload, issued, returned, before, logged,
                 wpc, wPayload, closePc, ctxDone, rwPc, rwCtx>>

\* a StartRewrite that does not keep the current database
StartRewrite_noDb ==
  /\ rwPc = "idle"
  /\ closePc = "idle"
  /\ unsynced' = FALSE
  /\ rwCtx' = [tmpFile |-> <<>>, fileSize |-> Len(aofFile), dbIdx |-> 0]
  /\ rwPc' = "started"
  /\ UNCHANGED <<aofFsync, aofFile, fileOpen, aofChan, chanClosed, currentDB,
                 cpc, cPayload, issued, returned, before, logged, wpc, wPayload,
                 closePc, ctxDone, fsyncPc>>

\* StartRewrite, under pausingAof: Sync, the file's size, a temp file and the
\* current database
StartRewrite ==
  /\ rwPc = "idle"
  /\ closePc = "idle"
  /\ unsynced' = FALSE
  /\ rwCtx' = [tmpFile |-> <<>>, fileSize |-> Len(aofFile), dbIdx |-> currentDB]
  /\ rwPc' = "started"
  /\ UNCHANGED <<aofFsync, aofFile, fileOpen, aofChan, chanClosed, currentDB,
                 cpc, cPayload, issued, returned, before, logged, wpc, wPayload,
                 closePc, ctxDone, fsyncPc>>

\* DoRewrite without the RDB preamble: generateAof(ctx)
DoRewrite ==
  /\ rwPc = "started"
  /\ \E out \in generateAof(rwCtx.fileSize, aofFile) :
       rwCtx' = [rwCtx EXCEPT !.tmpFile = out]
  /\ rwPc' = "rewritten"
  /\ UNCHANGED <<aofFsync, aofFile, fileOpen, unsynced, aofChan, chanClosed,
                 currentDB, cpc, cPayload, issued, returned, before, logged,
                 wpc, wPayload, closePc, ctxDone, fsyncPc>>

\* FinishRewrite, under pausingAof: SELECT ctx.dbIdx and the tail of the live
\* file from ctx.fileSize go to the temp file, which replaces the live file
\* and gets a SELECT of the current database
FinishRewrite ==
  /\ rwPc = "rewritten"
  /\ LET tail == SubSeq(aofFile, rwCtx.fileSize + 1, Len(aofFile))
         tmp  == rwCtx.tmpFile \o ToBytes(SelectCmd(rwCtx.dbIdx)) \o tail
     IN  /\ aofFile' = tmp \o ToBytes(SelectCmd(currentDB))
         /\ rwCtx' = [rwCtx EXCEPT !.tmpFile = tmp]
  /\ fileOpen' = TRUE
  /\ unsynced' = TRUE
  /\ rwPc' = "finished"
  /\ UNCHANGED <<aofFsync, aofChan, chanClosed, currentDB, cpc,
                 cPayload, issued, returned, before, logged, wpc, wPayload,
                 closePc, ctxDone, fsyncPc>>

-----------------------------------------------------------------------------
(* aof.Persister: properties *)

IsSelect(args) == ToLower(args[1]) = "select"

\* the commands LoadAof reads from the live file
FileCmds == ParseStream(aofFile, 1)

\* the commands of the file other than SELECT, and the values they carry
FileData == SelectSeq(FileCmds, LAMBDA args : ~IsSelect(args))

FileIds == [j \in 1..Len(FileData) |-> FileData[j][3]]

FilePos(id) == {j \in 1..Len(FileIds) : FileIds[j] = id}

\* each payload executed once against its own database, in order
RECURSIVE ApplyAll(_, _, _)
ApplyAll(db, ps, i) ==
  IF i > Len(ps) THEN db
  ELSE ApplyAll(Exec([db |-> db, sel |-> ps[i].dbIndex], ps[i].cmdLine).db, ps, i + 1)

\* what LoadAof executes: each command other than SELECT with the database
\* that is selected on the fake connection when it runs
RECURSIVE LoadTrace(_, _, _)
LoadTrace(st, cmds, i) ==
  IF i > Len(cmds) THEN <<>>
  ELSE (IF IsSelect(cmds[i]) THEN <<>>
        ELSE <<[cmdLine |-> cmds[i], dbIndex |-> st.sel]>>)
       \o LoadTrace(Exec(st, cmds[i]), cmds, i + 1)

\* the database of the last SELECT among the commands (0 if none)
LastSelect(cmds) ==
  LET sel == {j \in 1..Len(cmds) : IsSelect(cmds[j])}
  IN  IF sel = {} THEN 0 ELSE Atoi(cmds[Max(sel)][2])

\* the payloads whose database is not the database of the payload before
DbChanges(ps) ==
  {j \in 1..Len(ps) : ps[j].dbIndex # (IF j = 1 THEN 0 ELSE ps[j - 1].dbIndex)}

\* C1: once FinishRewrite has replaced the file, loading the file gives the
\* database that executing every logged payload once, in order, gives
C1_RewriteEquivalence ==
  rwPc = "finished" => LoadAof(aofFile, 0).db = ApplyAll(EmptyDB, logged, 1)

\* C7: no command is in the file twice; a command in the file is preceded by
\* every command whose SaveCmdLine had returned when its own was called; and
\* once the clients are idle and the channel is drained every command whose
\* SaveCmdLine returned is in the file
C7_CommitOrder ==
  /\ \A j, k \in 1..Len(FileIds) : FileIds[j] = FileIds[k] => j = k
  /\ \A k \in 1..Len(FileIds) :
       \A a \in before[Atoi(FileIds[k])] : \E j \in 1..(k - 1) : FileIds[j] = a
  /\ ((\A c \in Clients : cpc[c] = "idle") /\ aofChan = <<>> /\ wpc # "writing")
       => \A a \in returned : Cardinality(FilePos(a)) = 1

C7_Witness ==
  /\ aofFsync = "everysec"
  /\ Len(FileIds) = MaxCmds
  /\ \E k \in 1..Len(FileIds) : before[Atoi(FileIds[k])] # {}
  /\ \E k \in 1..Len(FileIds) : Atoi(FileIds[k]) > 1 /\ before[Atoi(FileIds[k])] = {}

\* C8: LoadAof executes exactly the payloads writeAof wrote, each against its
\* own database and in the order written; the file holds one SELECT per
\* payload whose database differs from the one before; and currentDB is the
\* database of the last SELECT in the file
C8_RoundTrip ==
  /\ LoadTrace(NewFakeConn, FileCmds, 1) = logged
  /\ LoadAof(aofFile, 0).db = ApplyAll(EmptyDB, logged, 1)
  /\ Len(FileCmds) - Len(FileData) = Cardinality(DbChanges(logged))
  /\ currentDB = LastSelect(FileCmds)

C8_Witness ==
  /\ Len(logged) = 3
  /\ logged[1].dbIndex = 1
  /\ logged[2].dbIndex = 1
  /\ logged[3].dbIndex = 0
  /\ currentDB = 0

\* C9: when Close has returned the writer goroutine has left its loop, the
\* channel is empty, every command whose SaveCmdLine returned is in the file
\* and the context is cancelled; and from then on the fsync goroutine of the
\* every-second policy eventually exits
C9_CloseDrains ==
  /\ [](closePc = "returned" =>
          /\ wpc = "exited"
          /\ aofChan = <<>>
          /\ ctxDone
          /\ \A a \in returned : FilePos(a) # {})
  /\ ((closePc = "returned" /\ aofFsync = "everysec") ~> (fsyncPc = "exited"))

C9_Witness ==
  /\ closePc = "returned"
  /\ aofFsync = "everysec"
  /\ fsyncPc = "exited"
  /\ Len(logged) >= 2

-----------------------------------------------------------------------------
(* sortedset: the skip list *)

\* the highest level a node may have
maxLevel == 16

\* the highest level randomLevel returns in a run
MaxNodeLevel == 3

\* scores are 0..MaxScore
MaxScore == 1

Scores == 0..MaxScore

\* members are strings, held as their bytes: "", "aa" and "b"
Members == {<<>>, <<97, 97>>, <<98>>}

\* the nil pointer
Nil == 0

\* Go's < on strings: bytewise lexicographic
RECURSIVE StrLess(_, _)
StrLess(a, b) ==
  IF b = <<>> THEN FALSE
  ELSE IF a = <<>> THEN TRUE
  ELSE IF Head(a) # Head(b) THEN Head(a) < Head(b)
  ELSE StrLess(Tail(a), Tail(b))

\* makeNode(level, score, member) at a fresh address
makeNode(level, score, member) ==
  [Member |-> member, Score |-> score, backward |-> Nil,
   level |-> [k \in 1..level |-> [forward |-> Nil, span |-> 0]]]

\* the address the allocator hands out
NewAddr(h) == Min({a \in 1..(Cardinality(DOMAIN h) + 1) : a \notin DOMAIN h})

\* makeSkiplist(): level 1 and a header of maxLevel levels at address 1
makeSkiplist == [header |-> 1, tail |-> Nil, length |-> 0, level |-> 1]

makeSkiplist_heap == (1 :> makeNode(maxLevel, 0, <<>>))

\* the highest level randomLevel() draws while Add, Remove, RemoveRange and PopMin run
MaxOpsLevel == 2

\* randomLevel(): maxLevel - bits.Len64(k+1) + 1 for k in 0..2^maxLevel-2,
\* that is any level of 1..maxLevel
randomLevel == 1..Min({maxLevel, MaxNodeLevel})

\* the loop condition of insert and remove: the next node at level k (the
\* code's level[k-1]) exists and is ordered before (score, member)
Before(h, x, k, score, member) ==
  LET f == h[x].level[k].forward
  IN  /\ f # Nil
      /\ \/ h[f].Score < score
         \/ (h[f].Score = score /\ StrLess(h[f].Member, member))

\* the inner loop of insert at level k from node x with rank r
RECURSIVE insert_walk(_, _, _, _, _, _)
insert_walk(h, x, k, r, score, member) ==
  IF Before(h, x, k, score, member)
  THEN insert_walk(h, h[x].level[k].forward, k, r + h[x].level[k].span, score, member)
  ELSE [node |-> x, rank |-> r]

\* the outer loop of insert from level k down: update[] and rank[], as one
\* sequence of [node, rank] indexed by level
RECURSIVE insert_search(_, _, _, _, _, _)
insert_search(h, x, k, r, score, member) ==
  IF k = 0 THEN <<>>
  ELSE LET w == insert_walk(h, x, k, r, score, member)
       IN  Append(insert_search(h, w.node, k - 1, w.rank, score, member), w)

\* mutant: the levels above the new node keep their span
insert_spanAbove_same(span) == span

\* insert: update[i].level[i].span++ for the levels above the new node
insert_spanAbove(span) == span + 1

\* insert: the loop that links the new node n at the levels k..level
RECURSIVE insert_link(_, _, _, _, _)
insert_link(h, n, upd, k, level) ==
  IF k > level THEN h
  ELSE LET u    == upd[k].node
           old  == h[u].level[k]
           skip == upd[1].rank - upd[k].rank
           h1   == [h EXCEPT ![n].level[k] = [forward |-> old.forward, span |-> old.span - skip],
                             ![u].level[k] = [forward |-> n, span |-> skip + 1]]
       IN  insert_link(h1, n, upd, k + 1, level)

\* skiplist.insert(member, score) with randomLevel() = level: the heap and
\* the skiplist after it
insert(h, sl, member, score, level) ==
  LET found == insert_search(h, sl.header, sl.level, 0, score, member)
      upd   == [k \in 1..Max({level, sl.level}) |->
                  IF k <= sl.level THEN found[k] ELSE [node |-> sl.header, rank |-> 0]]
      \* the levels the list did not have: the header spans the whole list
      h0    == [h EXCEPT ![sl.header].level =
                  [k \in 1..maxLevel |->
                     IF k > sl.level /\ k <= level
                     THEN [forward |-> h[sl.header].level[k].forward, span |-> sl.length]
                     ELSE h[sl.header].level[k]]]
      top   == Max({level, sl.level})
      n     == NewAddr(h)
      h1    == [a \in DOMAIN h0 \cup {n} |->
                  IF a = n THEN makeNode(level, score, member) ELSE h0[a]]
      h2    == insert_link(h1, n, upd, 1, level)
      h3    == [a \in DOMAIN h2 |->
                  [h2[a] EXCEPT !.level =
                     [k \in DOMAIN h2[a].level |->
                        IF k > level /\ k <= top /\ upd[k].node = a
                        THEN [h2[a].level[k] EXCEPT !.span = insert_spanAbove(@)]
                        ELSE h2[a].level[k]]]]
      back  == IF upd[1].node = sl.header THEN Nil ELSE upd[1].node
      next  == h3[n].level[1].forward
      h4    == [h3 EXCEPT ![n].backward = back]
      h5    == IF next # Nil THEN [h4 EXCEPT ![next].backward = n] ELSE h4
  IN  [heap |-> h5,
       skiplist |-> [header |-> sl.header,
                     tail |-> IF next # Nil THEN sl.tail ELSE n,
                     length |-> sl.length + 1,
                     level |-> top]]

\* the outer loop of remove from level k down: update[], indexed by level
RECURSIVE remove_search(_, _, _, _, _)
remove_search(h, x, k, score, member) ==
  IF k = 0 THEN <<>>
  ELSE LET w == insert_walk(h, x, k, 0, score, member).node
       IN  Append(remove_search(h, w, k - 1, score, member), w)

\* removeNode: the loop that shrinks skiplist.level while the top level of
\* the header leads nowhere
RECURSIVE removeNode_level(_, _, _)
removeNode_level(h, header, level) ==
  IF level > 1 /\ h[header].level[level].forward = Nil
  THEN removeNode_level(h, header, level - 1)
  ELSE level

\* some pointer of the skiplist or of another node leads to node n
Referenced(h, sl, n) ==
  \/ n = sl.header
  \/ n = sl.tail
  \/ \E a \in DOMAIN h \ {n} :
        \/ h[a].backward = n
        \/ \E k \in DOMAIN h[a].level : h[a].level[k].forward = n

\* the garbage collector frees node n once nothing refers to it
Collect(st, n) ==
  IF Referenced(st.heap, st.skiplist, n) THEN st
  ELSE [st EXCEPT !.heap = [a \in DOMAIN st.heap \ {n} |-> st.heap[a]]]

\* skiplist.removeNode(node, update)
removeNode(h, sl, n, update) ==
  LET h1   == [a \in DOMAIN h |->
                 [h[a] EXCEPT !.level =
                    [k \in DOMAIN h[a].level |->
                       IF k <= sl.level /\ update[k] = a
                       THEN IF h[a].level[k].forward = n
                            THEN [forward |-> h[n].level[k].forward,
                                  span |-> h[a].level[k].span + h[n].level[k].span - 1]
                            ELSE [h[a].level[k] EXCEPT !.span = @ - 1]
                       ELSE h[a].level[k]]]]
      next == h[n].level[1].forward
      h2   == IF next # Nil THEN [h1 EXCEPT ![next].backward = h[n].backward] ELSE h1
  IN  [heap |-> h2,
       skiplist |-> [header |-> sl.header,
                     tail |-> IF next # Nil THEN sl.tail ELSE h[n].backward,
                     length |-> sl.length - 1,
                     level |-> removeNode_level(h2, sl.header, sl.level)]]

\* skiplist.remove(member, score): the heap, the skiplist and the result
remove(h, sl, member, score) ==
  LET update == remove_search(h, sl.header, sl.level, score, member)
      n      == h[update[1]].level[1].forward
  IN  IF n # Nil /\ h[n].Score = score /\ h[n].Member = member
      THEN [ok |-> TRUE] @@ Collect(removeNode(h, sl, n, update), n)
      ELSE [ok |-> FALSE, heap |-> h, skiplist |-> sl]

\* the loop condition of getRank: as in insert, with <= on the member
NotAfter(h, x, k, score, member) ==
  LET f == h[x].level[k].forward
  IN  /\ f # Nil
      /\ \/ h[f].Score < score
         \/ (h[f].Score = score /\ (StrLess(h[f].Member, member) \/ h[f].Member = member))

RECURSIVE getRank_walk(_, _, _, _, _, _)
getRank_walk(h, x, k, r, score, member) ==
  IF k = 0 THEN [node |-> x, rank |-> r]
  ELSE IF NotAfter(h, x, k, score, member)
  THEN getRank_walk(h, h[x].level[k].forward, k, r + h[x].level[k].span, score, member)
  ELSE getRank_walk(h, x, k - 1, r, score, member)

\* skiplist.getRank(member, score)
getRank(h, sl, member, score) ==
  LET w == getRank_walk(h, sl.header, sl.level, 0, score, member)
  IN  IF w.node # Nil /\ h[w.node].Member = member THEN w.rank ELSE 0

RECURSIVE getByRank_walk(_, _, _, _, _)
getByRank_walk(h, x, k, currentRank, rank) ==
  IF k = 0 THEN [node |-> x, rank |-> currentRank]
  ELSE IF h[x].level[k].forward # Nil /\ rank >= currentRank + h[x].level[k].span
  THEN getByRank_walk(h, h[x].level[k].forward, k, currentRank + h[x].level[k].span, rank)
  ELSE getByRank_walk(h, x, k - 1, currentRank, rank)

\* skiplist.getByRank(rank): the node's address, or Nil
getByRank(h, sl, rank) ==
  LET w == getByRank_walk(h, sl.header, sl.level, 0, rank)
  IN  IF w.rank = rank THEN w.node ELSE Nil

\* RemoveRangeByRank: the inner loop at level k from node x with rank r
RECURSIVE RemoveRangeByRank_walk(_, _, _, _, _)
RemoveRangeByRank_walk(h, x, k, r, start) ==
  IF h[x].level[k].forward # Nil /\ r + h[x].level[k].span <= start
  THEN RemoveRangeByRank_walk(h, h[x].level[k].forward, k, r + h[x].level[k].span, start)
  ELSE [node |-> x, rank |-> r]

\* RemoveRangeByRank: the outer loop from level k down: update[] as a
\* sequence of [node, rank] indexed by level
RECURSIVE RemoveRangeByRank_search(_, _, _, _, _)
RemoveRangeByRank_search(h, x, k, r, start) ==
  IF k = 0 THEN <<>>
  ELSE LET w == RemoveRangeByRank_walk(h, x, k, r, start)
       IN  Append(RemoveRangeByRank_search(h, w.node, k - 1, w.rank, start), w)

\* RemoveRangeByRank: the loop that removes node, its successor and so on
\* while rank < stop; st is [heap, skiplist, removed]
RECURSIVE RemoveRangeByRank_loop(_, _, _, _, _)
RemoveRangeByRank_loop(st, node, rank, stop, update) ==
  IF node # Nil /\ rank < stop
  THEN LET h        == st.heap
           nextNode == h[node].level[1].forward
           element  == [Member |-> h[node].Member, Score |-> h[node].Score]
           rm       == Collect(removeNode(h, st.skiplist, node, update), node)
       IN  RemoveRangeByRank_loop(
             [heap |-> rm.heap, skiplist |-> rm.skiplist,
              removed |-> Append(st.removed, element)],
             nextNode, rank + 1, stop, update)
  ELSE st

\* skiplist.RemoveRangeByRank(start, stop): the heap, the skiplist and the
\* removed elements
RemoveRangeByRank(h, sl, start, stop) ==
  LET found  == RemoveRangeByRank_search(h, sl.header, sl.level, 0, start)
      update == [k \in 1..sl.level |-> found[k].node]
  IN  RemoveRangeByRank_loop([heap |-> h, skiplist |-> sl, removed |-> <<>>],
                             found[1].node, found[1].rank, stop, update)

-----------------------------------------------------------------------------
(* sortedset: score borders and the range functions of the skip list *)

scoreNegativeInf == -1

scorePositiveInf == 1

\* the zero value of the Value field
zeroValue == 0

scorePositiveInfBorder == [Inf |-> scorePositiveInf, Value |-> zeroValue, Exclude |-> FALSE]

scoreNegativeInfBorder == [Inf |-> scoreNegativeInf, Value |-> zeroValue, Exclude |-> FALSE]

\* the borders ParseScoreBorder builds: the two infinities and the open and
\* closed borders at a score
Borders ==
  {scoreNegativeInfBorder, scorePositiveInfBorder}
    \cup {[Inf |-> 0, Value |-> v, Exclude |-> x] : v \in Scores, x \in BOOLEAN}

\* ScoreBorder.greater(element): the element is within the upper border
greater(border, element) ==
  IF border.Inf = scoreNegativeInf THEN FALSE
  ELSE IF border.Inf = scorePositiveInf THEN TRUE
  ELSE IF border.Exclude THEN border.Value > element.Score
  ELSE border.Value >= element.Score

\* ScoreBorder.less(element): the element is within the lower border
less(border, element) ==
  IF border.Inf = scoreNegativeInf THEN TRUE
  ELSE IF border.Inf = scorePositiveInf THEN FALSE
  ELSE IF border.Exclude THEN border.Value < element.Score
  ELSE border.Value <= element.Score

\* ScoreBorder.isIntersected(max), on the Value fields only
isIntersected(min, max) ==
  \/ min.Value > max.Value
  \/ (min.Value = max.Value /\ (min.Exclude \/ max.Exclude))

\* skiplist.hasInRange(min, max)
hasInRange(h, sl, min, max) ==
  IF isIntersected(min, max) THEN FALSE
  ELSE IF sl.tail = Nil \/ ~less(min, h[sl.tail]) THEN FALSE
  ELSE LET n == h[sl.header].level[1].forward
       IN  ~(n = Nil \/ ~greater(max, h[n]))

\* the loops of getFirstInRange: right while the next node is below min
RECURSIVE getFirstInRange_walk(_, _, _, _)
getFirstInRange_walk(h, x, k, min) ==
  IF k = 0 THEN x
  ELSE IF h[x].level[k].forward # Nil /\ ~less(min, h[h[x].level[k].forward])
  THEN getFirstInRange_walk(h, h[x].level[k].forward, k, min)
  ELSE getFirstInRange_walk(h, x, k - 1, min)

\* skiplist.getFirstInRange(min, max): a node's address or Nil
getFirstInRange(h, sl, min, max) ==
  IF ~hasInRange(h, sl, min, max) THEN Nil
  ELSE LET node == h[getFirstInRange_walk(h, sl.header, sl.level, min)].level[1].forward
       IN  IF greater(max, h[node]) THEN node ELSE Nil

\* the loops of getLastInRange: right while the next node is within max
RECURSIVE getLastInRange_walk(_, _, _, _)
getLastInRange_walk(h, x, k, max) ==
  IF k = 0 THEN x
  ELSE IF h[x].level[k].forward # Nil /\ greater(max, h[h[x].level[k].forward])
  THEN getLastInRange_walk(h, h[x].level[k].forward, k, max)
  ELSE getLastInRange_walk(h, x, k - 1, max)

\* skiplist.getLastInRange(min, max): a node's address or Nil
getLastInRange(h, sl, min, max) ==
  IF ~hasInRange(h, sl, min, max) THEN Nil
  ELSE LET node == getLastInRange_walk(h, sl.header, sl.level, max)
       IN  IF less(min, h[node]) THEN node ELSE Nil

\* RemoveRange: the search loops, right while the next node is not above
\* min; update[] as a sequence of nodes indexed by level
RECURSIVE RemoveRange_search(_, _, _, _)
RemoveRange_search(h, x, k, min) ==
  IF k = 0 THEN <<>>
  ELSE IF h[x].level[k].forward # Nil /\ ~less(min, h[h[x].level[k].forward])
  THEN RemoveRange_search(h, h[x].level[k].forward, k, min)
  ELSE Append(RemoveRange_search(h, x, k - 1, min), x)

\* RemoveRange: the loop that removes node and its successors while they
\* are within max; limit > 0 ends it after limit removals; st is
\* [heap, skiplist, removed]
RECURSIVE RemoveRange_loop(_, _, _, _, _)
RemoveRange_loop(st, node, max, limit, update) ==
  IF node # Nil /\ greater(max, st.heap[node])
  THEN LET h        == st.heap
           nextNode == h[node].level[1].forward
           element  == [Member |-> h[node].Member, Score |-> h[node].Score]
           rm       == Collect(removeNode(h, st.skiplist, node, update), node)
           st2      == [heap |-> rm.heap, skiplist |-> rm.skiplist,
                        removed |-> Append(st.removed, element)]
       IN  IF limit > 0 /\ Len(st2.removed) = limit
           THEN st2
           ELSE RemoveRange_loop(st2, nextNode, max, limit, update)
  ELSE st

\* skiplist.RemoveRange(min, max, limit): the heap, the skiplist and the
\* removed elements
RemoveRange(h, sl, min, max, limit) ==
  LET update == RemoveRange_search(h, sl.header, sl.level, min)
  IN  RemoveRange_loop([heap |-> h, skiplist |-> sl, removed |-> <<>>],
                       h[update[1]].level[1].forward, max, limit, update)

-----------------------------------------------------------------------------
(* sortedset.SortedSet *)

\* sortedset.Make()
ZsetInit ==
  /\ zsetDict = <<>>
  /\ heap = makeSkiplist_heap
  /\ skiplist = makeSkiplist
  /\ zsetRet = [op |-> "Make", ok |-> TRUE]

\* sortedSet.dict[member] = &Element{member, score}
DictPut(d, member, score) ==
  [m \in DOMAIN d \cup {member} |->
     IF m = member THEN [Member |-> member, Score |-> score] ELSE d[m]]

\* SortedSet.Add(member, score); level is what randomLevel() returns if the
\* call inserts a node
Add(member, score, level) ==
  LET ok == member \in DOMAIN zsetDict
      rm == remove(heap, skiplist, member, zsetDict[member].Score)
      at == IF ~ok THEN [heap |-> heap, skiplist |-> skiplist]
            ELSE [heap |-> rm.heap, skiplist |-> rm.skiplist]
      to == insert(at.heap, at.skiplist, member, score, level)
  IN  /\ zsetDict' = DictPut(zsetDict, member, score)
      /\ IF ok /\ score = zsetDict[member].Score
         THEN UNCHANGED <<heap, skiplist>>
         ELSE heap' = to.heap /\ skiplist' = to.skiplist
      /\ zsetRet' = [op |-> "Add", ok |-> ~ok]

\* SortedSet.Remove(member)
Remove(member) ==
  IF member \in DOMAIN zsetDict
  THEN LET rm == remove(heap, skiplist, member, zsetDict[member].Score)
       IN  /\ heap' = rm.heap
           /\ skiplist' = rm.skiplist
           /\ zsetDict' = [m \in DOMAIN zsetDict \ {member} |-> zsetDict[m]]
           /\ zsetRet' = [op |-> "Remove", ok |-> TRUE]
  ELSE /\ zsetRet' = [op |-> "Remove", ok |-> FALSE]
       /\ UNCHANGED <<zsetDict, heap, skiplist>>

\* a loop over removed that deletes the first element's member only
DictDelete_first(d, removed) ==
  [m \in DOMAIN d \ {removed[j].Member : j \in 1..Min({1, Len(removed)})} |-> d[m]]

\* delete(sortedSet.dict, element.Member) for each removed element
DictDelete(d, removed) ==
  [m \in DOMAIN d \ {removed[j].Member : j \in 1..Len(removed)} |-> d[m]]

\* SortedSet.RemoveByRank(start, stop), ranks counted from 0
RemoveByRank(start, stop) ==
  LET rm == RemoveRangeByRank(heap, skiplist, start + 1, stop + 1)
  IN  /\ heap' = rm.heap
      /\ skiplist' = rm.skiplist
      /\ zsetDict' = DictDelete(zsetDict, rm.removed)
      /\ zsetRet' = [op |-> "RemoveByRank", start |-> start, stop |-> stop,
                     removed |-> rm.removed]

\* SortedSet.RemoveRange(min, max): the number of removed elements is returned
ZRemoveRange(min, max) ==
  LET rm == RemoveRange(heap, skiplist, min, max, 0)
  IN  /\ heap' = rm.heap
      /\ skiplist' = rm.skiplist
      /\ zsetDict' = DictDelete(zsetDict, rm.removed)
      /\ zsetRet' = [op |-> "RemoveRange", removed |-> Len(rm.removed)]

\* SortedSet.PopMin(count)
PopMin(count) ==
  LET first == getFirstInRange(heap, skiplist, scoreNegativeInfBorder, scorePositiveInfBorder)
  IN  IF first = Nil
      THEN /\ zsetRet' = [op |-> "PopMin", count |-> count, removed |-> <<>>]
           /\ UNCHANGED <<zsetDict, heap, skiplist>>
      ELSE LET border == [Inf |-> 0, Value |-> heap[first].Score, Exclude |-> FALSE]
               rm     == RemoveRange(heap, skiplist, border, scorePositiveInfBorder, count)
           IN  /\ heap' = rm.heap
               /\ skiplist' = rm.skiplist
               /\ zsetDict' = DictDelete(zsetDict, rm.removed)
               /\ zsetRet' = [op |-> "PopMin", count |-> count, removed |-> rm.removed]

\* the node ForEach visits after node x: its predecessor when desc, else
\* its successor at level 0
ForEach_step(h, x, desc) == IF desc THEN h[x].backward ELSE h[x].level[1].forward

\* ForEach: the loop that moves the start node by the offset
RECURSIVE ForEach_skip(_, _, _, _)
ForEach_skip(h, node, offset, desc) ==
  IF node # Nil /\ offset > 0
  THEN ForEach_skip(h, ForEach_step(h, node, desc), offset - 1, desc)
  ELSE node

\* ForEach: the loop that hands nodes to the consumer (which returns true);
\* the nodes consumed from the i-th round on
RECURSIVE ForEach_visit(_, _, _, _, _, _, _)
ForEach_visit(h, node, i, min, max, limit, desc) ==
  IF (i < limit \/ limit < 0) /\ node # Nil
  THEN LET next == ForEach_step(h, node, desc)
       IN  <<node>> \o
           (IF next = Nil THEN <<>>
            ELSE IF ~less(min, h[next]) \/ ~greater(max, h[next]) THEN <<>>
            ELSE ForEach_visit(h, next, i + 1, min, max, limit, desc))
  ELSE <<>>

\* SortedSet.ForEach(min, max, offset, limit, desc, consumer): the nodes the
\* consumer gets, in order
ForEach(h, sl, min, max, offset, limit, desc) ==
  LET first == IF desc THEN getLastInRange(h, sl, min, max)
               ELSE getFirstInRange(h, sl, min, max)
  IN  ForEach_visit(h, ForEach_skip(h, first, offset, desc), 0, min, max, limit, desc)

\* SortedSet.Range(min, max, offset, limit, desc): the elements returned
ZRange(h, sl, min, max, offset, limit, desc) ==
  IF limit = 0 \/ offset < 0 THEN <<>>
  ELSE LET ns == ForEach(h, sl, min, max, offset, limit, desc)
       IN  [j \in 1..Len(ns) |-> [Member |-> h[ns[j]].Member, Score |-> h[ns[j]].Score]]

\* the stored elements ordered before (member, score)
OrderedBefore(member, score) ==
  {m \in DOMAIN zsetDict :
     \/ zsetDict[m].Score < score
     \/ (zsetDict[m].Score = score /\ StrLess(m, member))}

\* C10: after any calls of Add and Remove the skip list holds as many nodes
\* as the set has members; getRank of a stored (member, score) is 1 + the
\* number of stored elements ordered before it; and getByRank(r), for r in
\* 1..length, is the node of the stored element whose getRank is r
C10_SkiplistRanks ==
  /\ skiplist.length = Cardinality(DOMAIN zsetDict)
  /\ \A m \in DOMAIN zsetDict :
       getRank(heap, skiplist, m, zsetDict[m].Score)
         = 1 + Cardinality(OrderedBefore(m, zsetDict[m].Score))
  /\ \A r \in 1..skiplist.length :
       LET n == getByRank(heap, skiplist, r)
       IN  /\ n # Nil
           /\ n # skiplist.header
           /\ heap[n].Member \in DOMAIN zsetDict
           /\ zsetDict[heap[n].Member].Score = heap[n].Score
           /\ getRank(heap, skiplist, heap[n].Member, heap[n].Score) = r

C10_Witness ==
  /\ zsetRet = [op |-> "Remove", ok |-> TRUE]
  /\ skiplist.length = 2
  /\ skiplist.level = MaxNodeLevel
  /\ \E k \in 2..skiplist.level : heap[skiplist.header].level[k].span = 2
  /\ \E m1, m2 \in DOMAIN zsetDict : m1 # m2 /\ zsetDict[m1].Score = zsetDict[m2].Score

\* the nodes on the level-0 chain after node x, in order
RECURSIVE Chain(_, _)
Chain(h, x) ==
  LET f == h[x].level[1].forward
  IN  IF f = Nil THEN <<>> ELSE <<f>> \o Chain(h, f)

\* the elements on the level-0 chain, in order
ChainElements(h, sl) ==
  LET c == Chain(h, sl.header)
  IN  [j \in 1..Len(c) |-> [Member |-> h[c[j]].Member, Score |-> h[c[j]].Score]]

\* the nodes some forward pointer leads to, following them from the header
RECURSIVE ForwardReach(_, _)
ForwardReach(h, S) ==
  LET N == (S \cup UNION {{h[a].level[k].forward : k \in DOMAIN h[a].level} : a \in S})
             \ {Nil}
  IN  IF N = S THEN S ELSE ForwardReach(h, N)

\* C11: a step of RemoveByRank(start, stop) with 0 <= start < stop <= Len()
\* returns the elements that had the 1-based ranks start+1..stop in ascending
\* order; afterwards no node reachable from the header holds one of their
\* members, length is the number of nodes on the level-0 chain, the member
\* index holds exactly the members that remain, and the remaining elements
\* keep their order and getRank gives each its position
C11_RemoveRangeByRank ==
  [][zsetRet'.op = "RemoveByRank" =>
       LET was  == ChainElements(heap, skiplist)
           now  == ChainElements(heap', skiplist')
           gone == SubSeq(was, zsetRet'.start + 1, zsetRet'.stop)
           kept == SubSeq(was, 1, zsetRet'.start) \o SubSeq(was, zsetRet'.stop + 1, Len(was))
       IN  /\ zsetRet'.removed = gone
           /\ \A a \in ForwardReach(heap', {skiplist'.header}) \ {skiplist'.header} :
                \A j \in 1..Len(gone) : heap'[a].Member # gone[j].Member
           /\ skiplist'.length = Len(now)
           /\ DOMAIN zsetDict' = {kept[j].Member : j \in 1..Len(kept)}
           /\ now = kept
           /\ \A j \in 1..Len(kept) :
                getRank(heap', skiplist', kept[j].Member, kept[j].Score) = j]_vars

\* the nodes of the level-0 chain whose element is within both borders
InBorders(h, sl, min, max) ==
  SelectSeq(Chain(h, sl.header), LAMBDA a : less(min, h[a]) /\ greater(max, h[a]))

\* C12: for every pair of score borders getFirstInRange returns the first
\* node of the chain whose element is within both borders, getLastInRange
\* the last such node, and each returns nil when there is none
C12_FirstLastInRange ==
  \A min, max \in Borders :
    LET in == InBorders(heap, skiplist, min, max)
    IN  /\ getFirstInRange(heap, skiplist, min, max) = (IF in = <<>> THEN Nil ELSE in[1])
        /\ getLastInRange(heap, skiplist, min, max) = (IF in = <<>> THEN Nil ELSE in[Len(in)])

\* the offsets and limits Range is called with
Offsets == 0..Cardinality(Members)

Limits == (-1)..Cardinality(Members)

\* the elements within both borders in the order asked for, without the
\* first offset of them and cut to limit elements when limit > 0
RangeExpected(h, sl, min, max, offset, limit, desc) ==
  LET in  == InBorders(h, sl, min, max)
      ord == IF desc THEN Reverse(in) ELSE in
      off == SubSeq(ord, offset + 1, Len(ord))
      cut == IF limit < 0 THEN off
             ELSE SubSeq(off, 1, Min({limit, Len(off)}))
  IN  [j \in 1..Len(cut) |-> [Member |-> h[cut[j]].Member, Score |-> h[cut[j]].Score]]

\* C13: Range(min, max, offset, limit, desc) returns the elements within both
\* borders, ascending or descending, after the first offset of them, cut to
\* limit elements when limit > 0, all when limit < 0 and none when limit = 0
C13_Range ==
  \A min, max \in Borders, offset \in Offsets, limit \in Limits, desc \in BOOLEAN :
    ZRange(heap, skiplist, min, max, offset, limit, desc)
      = RangeExpected(heap, skiplist, min, max, offset, limit, desc)

\* C14: a step of PopMin(count), count >= 0, returns the min(count, Len())
\* lowest-ranked elements in ascending order (none when count = 0), takes
\* exactly those off the level-0 chain and out of the member index, and
\* leaves every other element as it was
C14_PopMin ==
  [][zsetRet'.op = "PopMin" =>
       LET was  == ChainElements(heap, skiplist)
           now  == ChainElements(heap', skiplist')
           n    == Min({zsetRet'.count, Len(was)})
       IN  /\ zsetRet'.removed = SubSeq(was, 1, n)
           /\ now = SubSeq(was, n + 1, Len(was))
           /\ skiplist'.length = Len(now)
           /\ DOMAIN zsetDict' = {now[j].Member : j \in 1..Len(now)}
           /\ \A m \in DOMAIN zsetDict' : zsetDict'[m] = zsetDict[m]]_vars

\* the member index and the level-0 chain hold the same (member, score)
\* pairs, each member on one node, and Len() is skiplist.length
DictMatchesChain ==
  LET c == ChainElements(heap, skiplist)
  IN  /\ {c[j] : j \in 1..Len(c)} = {zsetDict[m] : m \in DOMAIN zsetDict}
      /\ \A m \in DOMAIN zsetDict : zsetDict[m].Member = m
      /\ \A i, j \in 1..Len(c) : c[i].Member = c[j].Member => i = j
      /\ Cardinality(DOMAIN zsetDict) = skiplist.length
      /\ Len(c) = skiplist.length

\* what a step of Add(member, score) leaves: its result tells whether the
\* member was absent, the index maps member to score and nothing else
\* changed in it, and the chain has one node of member, with score, at the
\* position the order by (score, member) gives it
AddPost(member, score) ==
  LET now == ChainElements(heap', skiplist')
      at  == {j \in 1..Len(now) : now[j].Member = member}
  IN  /\ zsetRet'.ok <=> member \notin DOMAIN zsetDict
      /\ DOMAIN zsetDict' = DOMAIN zsetDict \cup {member}
      /\ zsetDict'[member] = [Member |-> member, Score |-> score]
      /\ \A m \in DOMAIN zsetDict \ {member} : zsetDict'[m] = zsetDict[m]
      /\ at = {1 + Cardinality({m \in DOMAIN zsetDict' :
                                  \/ zsetDict'[m].Score < score
                                  \/ (zsetDict'[m].Score = score /\ StrLess(m, member))})}
      /\ \A j \in at : now[j].Score = score

\* C15: after any calls of Add, Remove, RemoveRange and PopMin the member
\* index and the skip list hold the same (member, score) pairs, each member
\* at most once, and Len() equals skiplist.length; a step of Add returns
\* true iff the member was absent before, and leaves exactly one node of the
\* member, with the score of the call, at its sorted position
C15_DictSkiplistAgree ==
  /\ []DictMatchesChain
  /\ [][zsetRet'.op = "Add" =>
          \E member \in Members, score \in Scores : AddPost(member, score)]_vars

C15_Witness ==
  /\ zsetRet.op = "PopMin"
  /\ zsetRet.count = 2
  /\ Len(zsetRet.removed) = 2
  /\ skiplist.length = 1
  /\ skiplist.level = MaxOpsLevel

-----------------------------------------------------------------------------
(* list.QuickList and list.LinkedList *)

\* const pageSize: the capacity make() gives a page (1024 in the source)
pageSize == 4

\* the longest list the calls build
MaxListLen == 5

\* how far beyond the needed length append() may set the capacity of the
\* array it allocates
MaxSlack == 1

\* the values stored in the lists
ListVals == 1..2

Slacks == 0..MaxSlack

\* the result of a call that panics
Panic == [panic |-> TRUE]

\* list.NewQuickList(): data is the container/list of pages, front first;
\* a page is a slice [elems, cap]
NewQuickList == [data |-> <<>>, size |-> 0]

\* make([]interface{}, 0, pageSize) and append(page, val)
NewPage(val) == [elems |-> <<val>>, cap |-> pageSize]

\* QuickList.Add(val)
QuickList_Add(ql, val) ==
  LET n == Len(ql.data)
  IN  [size |-> ql.size + 1,
       data |-> IF n = 0 THEN <<NewPage(val)>>
                ELSE IF Len(ql.data[n].elems) = ql.data[n].cap
                THEN Append(ql.data, NewPage(val))
                ELSE [ql.data EXCEPT ![n].elems = Append(@, val)]]

\* find: the loop from the front; n is the page, pageBeg the index of its
\* first element
RECURSIVE find_front(_, _, _, _)
find_front(data, n, pageBeg, index) ==
  IF n > Len(data) THEN Panic
  ELSE IF pageBeg + Len(data[n].elems) > index
  THEN [panic |-> FALSE, node |-> n, offset |-> index - pageBeg]
  ELSE find_front(data, n + 1, pageBeg + Len(data[n].elems), index)

\* find: the loop from the back; pageBeg is the index after page n
RECURSIVE find_back(_, _, _, _)
find_back(data, n, pageBeg, index) ==
  IF n < 1 THEN Panic
  ELSE IF pageBeg - Len(data[n].elems) <= index
  THEN [panic |-> FALSE, node |-> n, offset |-> index - (pageBeg - Len(data[n].elems))]
  ELSE find_back(data, n - 1, pageBeg - Len(data[n].elems), index)

\* QuickList.find(index): an iterator [node, offset] or a panic
QuickList_find(ql, index) ==
  IF index < 0 \/ index >= ql.size THEN Panic
  ELSE IF index < ql.size \div 2
  THEN find_front(ql.data, 1, 0, index)
  ELSE find_back(ql.data, Len(ql.data), ql.size, index)

\* iterator.get()
iterator_get(ql, it) == ql.data[it.node].elems[it.offset + 1]

\* iterator.next(): the iterator moved, and whether an element is there
iterator_next(ql, it) ==
  IF it.offset + 1 < Len(ql.data[it.node].elems)
  THEN [ok |-> TRUE, it |-> [it EXCEPT !.offset = @ + 1]]
  ELSE IF it.node = Len(ql.data)
  THEN [ok |-> FALSE, it |-> [it EXCEPT !.offset = Len(ql.data[it.node].elems)]]
  ELSE [ok |-> TRUE, it |-> [it EXCEPT !.node = @ + 1, !.offset = 0]]

\* QuickList.Get(index)
QuickList_Get(ql, index) ==
  LET it == QuickList_find(ql, index)
  IN  IF it.panic THEN Panic ELSE [panic |-> FALSE, val |-> iterator_get(ql, it)]

\* QuickList.Set(index, val)
QuickList_Set(ql, index, val) ==
  LET it == QuickList_find(ql, index)
  IN  IF it.panic THEN Panic
      ELSE [panic |-> FALSE,
            ql |-> [ql EXCEPT !.data[it.node].elems[it.offset + 1] = val]]

\* an insertion that leaves the element at offset where it was and puts val
\* after it
SliceInsert_after(page, offset, val, slack) ==
  [elems |-> SubSeq(page.elems, 1, offset + 1) \o <<val>>
               \o SubSeq(page.elems, offset + 2, Len(page.elems)),
   cap   |-> IF Len(page.elems) + 1 <= page.cap THEN page.cap
             ELSE Len(page.elems) + 1 + slack]

\* page = append(page[:offset+1], page[offset:]...); page[offset] = val:
\* in place while the capacity allows, else in a new array of a capacity
\* of the new length at least
SliceInsert(page, offset, val, slack) ==
  [elems |-> SubSeq(page.elems, 1, offset) \o <<val>>
               \o SubSeq(page.elems, offset + 1, Len(page.elems)),
   cap   |-> IF Len(page.elems) + 1 <= page.cap THEN page.cap
             ELSE Len(page.elems) + 1 + slack]

\* ql.data.InsertAfter(nextPage, node)
InsertAfter(data, nextPage, node) ==
  SubSeq(data, 1, node) \o <<nextPage>> \o SubSeq(data, node + 1, Len(data))

\* an Insert into a full page that does not split it
Insert_split_never(ql, it, val, slack1, slack2) ==
  [size |-> ql.size + 1,
   data |-> [ql.data EXCEPT ![it.node] = SliceInsert(@, it.offset, val, slack1)]]

\* Insert into a full page: the page is split at pageSize/2 and val goes to
\* the half that holds offset
Insert_split(ql, it, val, slack1, slack2) ==
  LET page     == ql.data[it.node]
      half     == pageSize \div 2
      nextPage == [elems |-> SubSeq(page.elems, half + 1, Len(page.elems)),
                   cap   |-> Len(page.elems) - half + slack1]
      front    == [elems |-> SubSeq(page.elems, 1, half), cap |-> page.cap]
      page2    == IF it.offset < half THEN SliceInsert(front, it.offset, val, slack2)
                  ELSE front
      next2    == IF it.offset < half THEN nextPage
                  ELSE SliceInsert(nextPage, it.offset - half, val, slack2)
  IN  [size |-> ql.size + 1,
       data |-> InsertAfter([ql.data EXCEPT ![it.node] = page2], next2, it.node)]

\* QuickList.Insert(index, val)
QuickList_Insert(ql, index, val, slack1, slack2) ==
  IF index = ql.size THEN [panic |-> FALSE, ql |-> QuickList_Add(ql, val)]
  ELSE LET it == QuickList_find(ql, index)
       IN  IF it.panic THEN Panic
           ELSE IF Len(ql.data[it.node].elems) < pageSize
           THEN [panic |-> FALSE,
                 ql |-> [size |-> ql.size + 1,
                         data |-> [ql.data EXCEPT ![it.node] =
                                     SliceInsert(@, it.offset, val, slack1)]]]
           ELSE [panic |-> FALSE, ql |-> Insert_split(ql, it, val, slack1, slack2)]

\* ql.data.Remove(node)
ListRemoveNode(data, node) ==
  SubSeq(data, 1, node - 1) \o SubSeq(data, node + 1, Len(data))

\* iterator.remove(): the list and the removed value
iterator_remove(ql, it) ==
  LET page  == ql.data[it.node]
      elems == SubSeq(page.elems, 1, it.offset)
                 \o SubSeq(page.elems, it.offset + 2, Len(page.elems))
  IN  [val |-> page.elems[it.offset + 1],
       ql  |-> [size |-> ql.size - 1,
                data |-> IF Len(elems) > 0
                         THEN [ql.data EXCEPT ![it.node].elems = elems]
                         ELSE ListRemoveNode(ql.data, it.node)]]

\* QuickList.Remove(index)
QuickList_Remove(ql, index) ==
  LET it == QuickList_find(ql, index)
  IN  IF it.panic THEN Panic
      ELSE [panic |-> FALSE] @@ iterator_remove(ql, it)

\* QuickList.RemoveLast()
QuickList_RemoveLast(ql) ==
  IF ql.size = 0 THEN [val |-> Nil, ql |-> ql]
  ELSE LET n        == Len(ql.data)
           lastPage == ql.data[n].elems
       IN  [val |-> lastPage[Len(lastPage)],
            ql  |-> [size |-> ql.size - 1,
                     data |-> IF Len(lastPage) = 1
                              THEN ListRemoveNode(ql.data, n)
                              ELSE [ql.data EXCEPT ![n].elems =
                                      SubSeq(lastPage, 1, Len(lastPage) - 1)]]]

\* QuickList.ForEach: the loop from iterator it; the values handed to a
\* consumer that always returns true
RECURSIVE QuickList_ForEach_loop(_, _)
QuickList_ForEach_loop(ql, it) ==
  LET nx == iterator_next(ql, it)
  IN  <<iterator_get(ql, it)>>
        \o (IF nx.ok THEN QuickList_ForEach_loop(ql, nx.it) ELSE <<>>)

\* QuickList.ForEach(consumer)
QuickList_ForEach(ql) ==
  IF ql.size = 0 THEN <<>>
  ELSE QuickList_ForEach_loop(ql, QuickList_find(ql, 0))

\* QuickList.Range: the loop that appends it.get() and moves on
RECURSIVE QuickList_Range_loop(_, _, _)
QuickList_Range_loop(ql, it, todo) ==
  IF todo = 0 THEN <<>>
  ELSE <<iterator_get(ql, it)>>
         \o QuickList_Range_loop(ql, iterator_next(ql, it).it, todo - 1)

\* QuickList.Range(start, stop)
QuickList_Range(ql, start, stop) ==
  IF start < 0 \/ start >= ql.size THEN Panic
  ELSE IF stop < start \/ stop > ql.size THEN Panic
  ELSE [panic |-> FALSE,
        val |-> IF stop = start THEN <<>>
                ELSE QuickList_Range_loop(ql, QuickList_find(ql, start), stop - start)]

\* &LinkedList{}: heap maps a node's address to [val, prev, next]
NewLinkedList == [heap |-> <<>>, first |-> Nil, last |-> Nil, size |-> 0]

\* LinkedList.Add(val)
LinkedList_Add(ll, val) ==
  LET n == NewAddr(ll.heap)
      h == [a \in DOMAIN ll.heap \cup {n} |->
              IF a = n THEN [val |-> val, prev |-> ll.last, next |-> Nil]
              ELSE IF a = ll.last THEN [ll.heap[a] EXCEPT !.next = n]
              ELSE ll.heap[a]]
  IN  [heap |-> h, first |-> IF ll.last = Nil THEN n ELSE ll.first,
       last |-> n, size |-> ll.size + 1]

\* find: n = n.next, k times; -1 when n is nil on the way
RECURSIVE find_next(_, _, _)
find_next(h, n, k) ==
  IF k <= 0 THEN n
  ELSE IF n = Nil THEN -1
  ELSE find_next(h, h[n].next, k - 1)

\* find: n = n.prev, k times; -1 when n is nil on the way
RECURSIVE find_prev(_, _, _)
find_prev(h, n, k) ==
  IF k <= 0 THEN n
  ELSE IF n = Nil THEN -1
  ELSE find_prev(h, h[n].prev, k - 1)

\* LinkedList.find(index): a node, nil, or -1 for a nil dereference
LinkedList_find(ll, index) ==
  IF index < ll.size \div 2
  THEN find_next(ll.heap, ll.first, index)
  ELSE find_prev(ll.heap, ll.last, ll.size - 1 - index)

\* LinkedList.Get(index)
LinkedList_Get(ll, index) ==
  IF index < 0 \/ index >= ll.size THEN Panic
  ELSE LET n == LinkedList_find(ll, index)
       IN  IF n = Nil \/ n = -1 THEN Panic
           ELSE [panic |-> FALSE, val |-> ll.heap[n].val]

\* LinkedList.Set(index, val)
LinkedList_Set(ll, index, val) ==
  IF index < 0 \/ index > ll.size THEN Panic
  ELSE LET n == LinkedList_find(ll, index)
       IN  IF n = Nil \/ n = -1 THEN Panic
           ELSE [panic |-> FALSE, ll |-> [ll EXCEPT !.heap[n].val = val]]

\* LinkedList.Insert(index, val)
LinkedList_Insert(ll, index, val) ==
  IF index < 0 \/ index > ll.size THEN Panic
  ELSE IF index = ll.size THEN [panic |-> FALSE, ll |-> LinkedList_Add(ll, val)]
  ELSE LET pivot == LinkedList_find(ll, index)
       IN  IF pivot = Nil \/ pivot = -1 THEN Panic
           ELSE LET n  == NewAddr(ll.heap)
                    pp == ll.heap[pivot].prev
                    h  == [a \in DOMAIN ll.heap \cup {n} |->
                             IF a = n THEN [val |-> val, prev |-> pp, next |-> pivot]
                             ELSE IF a = pivot THEN [ll.heap[a] EXCEPT !.prev = n]
                             ELSE IF a = pp THEN [ll.heap[a] EXCEPT !.next = n]
                             ELSE ll.heap[a]]
                IN  [panic |-> FALSE,
                     ll |-> [heap |-> h, first |-> IF pp = Nil THEN n ELSE ll.first,
                             last |-> ll.last, size |-> ll.size + 1]]

\* LinkedList.removeNode(n); the node is garbage afterwards
LinkedList_removeNode(ll, n) ==
  LET p == ll.heap[n].prev
      x == ll.heap[n].next
      h == [a \in DOMAIN ll.heap \ {n} |->
              [ll.heap[a] EXCEPT !.next = IF a = p THEN x ELSE @,
                                 !.prev = IF a = x THEN p ELSE @]]
  IN  [heap |-> h, first |-> IF p = Nil THEN x ELSE ll.first,
       last |-> IF x = Nil THEN p ELSE ll.last, size |-> ll.size - 1]

\* LinkedList.Remove(index)
LinkedList_Remove(ll, index) ==
  IF index < 0 \/ index >= ll.size THEN Panic
  ELSE LET n == LinkedList_find(ll, index)
       IN  IF n = Nil \/ n = -1 THEN Panic
           ELSE [panic |-> FALSE, val |-> ll.heap[n].val,
                 ll |-> LinkedList_removeNode(ll, n)]

\* LinkedList.RemoveLast()
LinkedList_RemoveLast(ll) ==
  IF ll.last = Nil THEN [val |-> Nil, ll |-> ll]
  ELSE [val |-> ll.heap[ll.last].val, ll |-> LinkedList_removeNode(ll, ll.last)]

\* LinkedList.ForEach: the loop from node n; the values handed to a
\* consumer that always returns true
RECURSIVE LinkedList_ForEach_loop(_, _)
LinkedList_ForEach_loop(h, n) ==
  IF n = Nil THEN <<>> ELSE <<h[n].val>> \o LinkedList_ForEach_loop(h, h[n].next)

\* LinkedList.ForEach(consumer)
LinkedList_ForEach(ll) == LinkedList_ForEach_loop(ll.heap, ll.first)

\* LinkedList.Range: the loop over the nodes from n at index i
RECURSIVE LinkedList_Range_loop(_, _, _, _, _)
LinkedList_Range_loop(h, n, i, start, stop) ==
  IF n = Nil THEN <<>>
  ELSE IF i >= start /\ i < stop
  THEN <<h[n].val>> \o LinkedList_Range_loop(h, h[n].next, i + 1, start, stop)
  ELSE IF i >= stop THEN <<>>
  ELSE LinkedList_Range_loop(h, h[n].next, i + 1, start, stop)

\* LinkedList.Range(start, stop)
LinkedList_Range(ll, start, stop) ==
  IF start < 0 \/ start >= ll.size THEN Panic
  ELSE IF stop > ll.size \/ stop < start THEN Panic
  ELSE [panic |-> FALSE, val |-> LinkedList_Range_loop(ll.heap, ll.first, 0, start, stop)]

\* the nodes of a LinkedList from node n along next, in order
RECURSIVE NextChain(_, _)
NextChain(h, n) == IF n = Nil THEN <<>> ELSE <<n>> \o NextChain(h, h[n].next)

\* &node{...}: the address of a node carries no meaning, so the nodes are
\* renamed 1, 2, ... in list order (a node off the chain comes after them)
Renumber(ll) ==
  LET c     == NextChain(ll.heap, ll.first)
      order == c \o SortAsc(DOMAIN ll.heap \ {c[j] : j \in 1..Len(c)})
      to(a) == IF a = Nil THEN Nil ELSE CHOOSE j \in 1..Len(order) : order[j] = a
  IN  [heap  |-> [j \in 1..Len(order) |->
                    [val  |-> ll.heap[order[j]].val,
                     prev |-> to(ll.heap[order[j]].prev),
                     next |-> to(ll.heap[order[j]].next)]],
       first |-> to(ll.first), last |-> to(ll.last), size |-> ll.size]

\* both lists empty
ListInit ==
  /\ quickList = NewQuickList
  /\ linkedList = NewLinkedList
  /\ listRet = [op |-> "New", oob |-> FALSE]

\* what a call leaves of list x: x itself after a panic, else the list of
\* the result r
After(x, r, field) == IF r.panic THEN x ELSE r[field]

\* Add(val) on both lists
ListAdd(val) ==
  /\ quickList' = QuickList_Add(quickList, val)
  /\ linkedList' = Renumber(LinkedList_Add(linkedList, val))
  /\ listRet' = [op |-> "Add", oob |-> FALSE]

\* the length of the page that Insert(index, val) finds, 0 when it finds
\* none (index = Len appends, an index out of range panics)
TargetPageLen(ql, index) ==
  IF index < 0 \/ index >= ql.size THEN 0
  ELSE Len(ql.data[QuickList_find(ql, index).node].elems)

\* Insert(index, val) on both lists
ListInsert(index, val, slack1, slack2) ==
  LET q == QuickList_Insert(quickList, index, val, slack1, slack2)
      l == LinkedList_Insert(linkedList, index, val)
  IN  /\ quickList' = After(quickList, q, "ql")
      /\ linkedList' = Renumber(After(linkedList, l, "ll"))
      /\ listRet' = [op |-> "Insert", oob |-> index < 0 \/ index > quickList.size,
                     index |-> index, val |-> val,
                     qlPanic |-> q.panic, llPanic |-> l.panic,
                     target |-> TargetPageLen(quickList, index)]

\* Set(index, val) on both lists
ListSet(index, val) ==
  LET q == QuickList_Set(quickList, index, val)
      l == LinkedList_Set(linkedList, index, val)
  IN  /\ quickList' = After(quickList, q, "ql")
      /\ linkedList' = Renumber(After(linkedList, l, "ll"))
      /\ listRet' = [op |-> "Set", oob |-> index < 0 \/ index >= quickList.size,
                     qlPanic |-> q.panic, llPanic |-> l.panic]

\* Get(index) on both lists
ListGet(index) ==
  LET q == QuickList_Get(quickList, index)
      l == LinkedList_Get(linkedList, index)
  IN  /\ UNCHANGED <<quickList, linkedList>>
      /\ listRet' = [op |-> "Get", oob |-> index < 0 \/ index >= quickList.size,
                     qlPanic |-> q.panic, llPanic |-> l.panic]

\* Remove(index) on both lists
ListRemove(index) ==
  LET q == QuickList_Remove(quickList, index)
      l == LinkedList_Remove(linkedList, index)
  IN  /\ quickList' = After(quickList, q, "ql")
      /\ linkedList' = Renumber(After(linkedList, l, "ll"))
      /\ listRet' = [op |-> "Remove", oob |-> index < 0 \/ index >= quickList.size,
                     qlPanic |-> q.panic, llPanic |-> l.panic,
                     qlVal |-> IF q.panic THEN Nil ELSE q.val,
                     llVal |-> IF l.panic THEN Nil ELSE l.val]

\* RemoveLast() on both lists
ListRemoveLast ==
  LET q == QuickList_RemoveLast(quickList)
      l == LinkedList_RemoveLast(linkedList)
  IN  /\ quickList' = q.ql
      /\ linkedList' = Renumber(l.ll)
      /\ listRet' = [op |-> "RemoveLast", oob |-> FALSE,
                     qlPanic |-> FALSE, llPanic |-> FALSE,
                     qlVal |-> q.val, llVal |-> l.val]

\* after the same calls the two lists answer alike: Len, Get of every
\* index, Range of every pair start <= stop, the order ForEach visits, and
\* the value the last Remove or RemoveLast returned
ListsAgree ==
  /\ quickList.size = linkedList.size
  /\ \A i \in 0..(quickList.size - 1) :
       /\ ~QuickList_Get(quickList, i).panic
       /\ QuickList_Get(quickList, i) = LinkedList_Get(linkedList, i)
  /\ \A start \in 0..(quickList.size - 1), stop \in 0..quickList.size :
       start <= stop =>
         /\ ~QuickList_Range(quickList, start, stop).panic
         /\ QuickList_Range(quickList, start, stop)
              = LinkedList_Range(linkedList, start, stop)
  /\ QuickList_ForEach(quickList) = LinkedList_ForEach(linkedList)
  /\ Len(QuickList_ForEach(quickList)) = quickList.size
  /\ listRet.op \in {"Remove", "RemoveLast"} =>
       /\ ~listRet.qlPanic /\ ~listRet.llPanic
       /\ listRet.qlVal = listRet.llVal

\* C16: for any calls of Add, Insert, Set, Remove and RemoveLast with
\* in-range indices made on a QuickList and on a LinkedList alike, Len, Get
\* of every index, Range and the ForEach order agree after every call and
\* Remove and RemoveLast return the same value on both; a step of
\* Insert(i, v) puts v at index i of the QuickList and moves the elements
\* formerly at i and after one place right, split of a full page included
C16_QuickListIsSequence ==
  /\ []ListsAgree
  /\ [][listRet'.op = "Insert" =>
          LET was == QuickList_ForEach(quickList)
              now == QuickList_ForEach(quickList')
              i   == listRet'.index
          IN  /\ ~listRet'.qlPanic
              /\ now = SubSeq(was, 1, i) \o <<listRet'.val>> \o SubSeq(was, i + 1, Len(was))]_vars

\* an Insert into the second half of a full first page has split it
C16_Witness ==
  /\ listRet.op = "Insert"
  /\ listRet.index >= pageSize \div 2
  /\ quickList.size = pageSize + 1
  /\ Len(quickList.data) = 2
  /\ Len(quickList.data[1].elems) = pageSize \div 2
  /\ \E i, j \in 0..(quickList.size - 1) :
       QuickList_Get(quickList, i).val # QuickList_Get(quickList, j).val

\* C17: on the QuickList and on the LinkedList a call of Get, Set or Remove
\* with index < 0 or index >= Len, or of Insert with index < 0 or
\* index > Len, panics and leaves the contents and Len of the list as
\* they were
C17_OutOfRangePanics ==
  [][listRet'.oob =>
       /\ listRet'.qlPanic
       /\ listRet'.llPanic
       /\ quickList'.size = quickList.size
       /\ QuickList_ForEach(quickList') = QuickList_ForEach(quickList)
       /\ linkedList'.size = linkedList.size
       /\ LinkedList_ForEach(linkedList') = LinkedList_ForEach(linkedList)]_vars

-----------------------------------------------------------------------------
(* cluster/core: GetPartitionKey and GetSlot *)

\* const SlotCount
SlotCount == 1024

\* the longest key routed
MaxKeyLen == 4

\* the bytes '{', '}' and 'a'
LBrace == 123

RBrace == 125

KeyBytes == {LBrace, RBrace, 97}

\* the keys routed: strings as sequences of bytes
Keys == UNION {[1..n -> KeyBytes] : n \in 0..MaxKeyLen}

\* strings.Index(key, c) for a one-byte c: the index, counted from 0, of
\* the first c in key, or -1
Index(key, c) ==
  IF \E i \in 1..Len(key) : key[i] = c
  THEN Min({i \in 1..Len(key) : key[i] = c}) - 1
  ELSE -1

\* GetPartitionKey(key); key[beg+1 : end] panics when end < beg+1
GetPartitionKey(key) ==
  LET beg == Index(key, LBrace)
      end == Index(key, RBrace)
  IN  IF beg = -1 THEN [panic |-> FALSE, val |-> key]
      ELSE IF end = -1 \/ end = beg + 1 THEN [panic |-> FALSE, val |-> key]
      ELSE IF beg + 1 > end THEN Panic
      ELSE [panic |-> FALSE, val |-> SubSeq(key, beg + 2, end)]

\* crc32: the reversed IEEE polynomial 0xEDB88320, as its high and its low
\* 16 bits
IEEEHigh == 60856

IEEELow == 33568

\* all 16 bits of a half of the register set
Ones16 == 65535

\* crc32: k shifts of the 32-bit register, held as <<high, low>> halves of
\* 16 bits; each shift moves the register right by one bit and, when the
\* bit shifted out was 1, exclusive-ors the polynomial in
RECURSIVE crc32_shift(_, _)
crc32_shift(crc, k) ==
  IF k = 0 THEN crc
  ELSE LET hi == crc[1] \div 2
           lo == (crc[2] \div 2) + (crc[1] % 2) * 32768
       IN  IF crc[2] % 2 = 1
           THEN crc32_shift(<<BitXor(hi, IEEEHigh), BitXor(lo, IEEELow)>>, k - 1)
           ELSE crc32_shift(<<hi, lo>>, k - 1)

\* crc32: the register after the bytes of data from position j on; the
\* register is a uint32, each half within 16 bits at every byte
RECURSIVE crc32_bytes(_, _, _)
crc32_bytes(crc, data, j) ==
  CASE j > Len(data) -> crc
    [] j <= Len(data) /\ crc[1] \in 0..Ones16 /\ crc[2] \in 0..Ones16 ->
         crc32_bytes(crc32_shift(<<crc[1], BitXor(crc[2], data[j])>>, 8), data, j + 1)

\* crc32.ChecksumIEEE(data) % uint32(SlotCount): the register starts and
\* ends inverted; SlotCount divides 2^16, so the remainder is that of the
\* low half
ChecksumIEEE_mod(data) ==
  (Ones16 - crc32_bytes(<<Ones16, Ones16>>, data, 1)[2]) % SlotCount

\* GetSlot(key)
GetSlot(key) ==
  LET partitionKey == GetPartitionKey(key)
  IN  IF partitionKey.panic THEN Panic
      ELSE [panic |-> FALSE, val |-> ChecksumIEEE_mod(partitionKey.val)]

\* a key is chosen
RouteInit ==
  /\ routeKey \in Keys
  /\ routeRet = [op |-> "none"]

\* GetPartitionKey(routeKey) is called
CallGetPartitionKey ==
  /\ routeRet' = [op |-> "GetPartitionKey"] @@ GetPartitionKey(routeKey)
  /\ UNCHANGED routeKey

\* GetSlot(routeKey) is called
CallGetSlot ==
  /\ routeRet' = [op |-> "GetSlot"] @@ GetSlot(routeKey)
  /\ UNCHANGED routeKey

\* the hashtag as the routing rule defines it: what lies between the first
\* '{' and the next '}' after it when both are there and something lies
\* between them, else the key
HashTag(key) ==
  LET beg  == Index(key, LBrace)
      ends == {i \in 1..Len(key) : key[i] = RBrace /\ i - 1 > beg}
  IN  IF beg = -1 \/ ends = {} \/ Min(ends) - 1 = beg + 1 THEN key
      ELSE SubSeq(key, beg + 2, Min(ends) - 1)

\* C18: GetPartitionKey returns a value for every key, a '}' before the
\* first '{' included: the bytes strictly between the first '{' and the
\* next '}' after it when both exist and the bytes between are not empty,
\* and the key itself otherwise
C18_GetPartitionKey ==
  routeRet.op = "GetPartitionKey" =>
    /\ ~routeRet.panic
    /\ routeRet.val = HashTag(routeKey)

\* "prefix-{" + partitionKey + "}-suffix"
Wrapped(partitionKey) ==
  <<112, 114, 101, 102, 105, 120, 45, LBrace>> \o partitionKey
    \o <<RBrace, 45, 115, 117, 102, 102, 105, 120>>

\* C19: for every key whose partition key is not empty, GetSlot of the key
\* is GetSlot of "prefix-{" + partition key + "}-suffix", a slot of
\* 0..SlotCount-1
C19_HashTagRoundTrip ==
  (routeRet.op = "GetSlot" /\ routeKey # <<>>) =>
    /\ ~routeRet.panic
    /\ routeRet.val \in 0..(SlotCount - 1)
    /\ routeRet = [op |-> "GetSlot"]
                    @@ GetSlot(Wrapped(GetPartitionKey(routeKey).val))

-----------------------------------------------------------------------------
(* cluster/core: makeRebalancePlan *)

\* the number of slots of the cluster the plan is made for (SlotCount, 1024
\* in the source)
PlanSlotCount == 12

\* the most nodes GetNodes() returns
MaxNodes == 4

\* the sum of the first n entries of a function of numbers
RECURSIVE SumTo(_, _)
SumTo(f, n) == IF n = 0 THEN 0 ELSE f[n] + SumTo(f, n - 1)

\* fsm.Node2Slot when node n owns count[n] slots: every slot has one owner,
\* node 1 the lowest slots, node 2 the next ones and so on
Node2SlotOf(count) ==
  [n \in DOMAIN count |-> [j \in 1..count[n] |-> SumTo(count, n - 1) + j - 1]]

\* int(math.Ceil(float64(SlotCount) / float64(len(nodes))))
avgSlot(nodes) == (PlanSlotCount + Len(nodes) - 1) \div Len(nodes)

\* len(nodeSlots) > avgSlot+1: one more than the bound is not enough
IsExporting_from(nodeSlots, avg) == Len(nodeSlots) > avg

\* len(nodeSlots) > avgSlot+1: a node exports only when it owns half as much
\* again as the average
IsExporting_half(nodeSlots, avg) == Len(nodeSlots) > avg + avg \div 2

\* len(nodeSlots) > avgSlot+1
IsExporting(nodeSlots, avg) == Len(nodeSlots) > avg + 1

\* len(nodeSlots) < avgSlot-1
IsImporting(nodeSlots, avg) == Len(nodeSlots) < avg - 1

\* the loop over nodes from position j on: the exporting and the importing
\* nodes, in the order of nodes
RECURSIVE Classify(_, _, _, _)
Classify(nodes, node2Slot, j, avg) ==
  IF j > Len(nodes) THEN [exportingNodes |-> <<>>, importingNodes |-> <<>>]
  ELSE LET rest == Classify(nodes, node2Slot, j + 1, avg)
           nodeSlots == node2Slot[nodes[j]]
       IN  [exportingNodes |->
              (IF IsExporting(nodeSlots, avg) THEN <<nodes[j]>> ELSE <<>>)
                \o rest.exportingNodes,
            importingNodes |->
              (IF IsImporting(nodeSlots, avg) THEN <<nodes[j]>> ELSE <<>>)
                \o rest.importingNodes]

\* the cluster before makeRebalancePlan is called: the nodes GetNodes()
\* returns and the slots each owns
PlanInit ==
  \E n \in 1..MaxNodes :
    \E count \in [1..n -> 0..PlanSlotCount] :
      /\ SumTo(count, n) = PlanSlotCount
      /\ planNodes = [j \in 1..n |-> j]
      /\ fsmNode2Slot = Node2SlotOf(count)
      /\ plan = [pc |-> "start"]

\* makeRebalancePlan up to the loop: the exporting and the importing nodes
PlanClassify ==
  /\ plan.pc = "start"
  /\ plan' = [pc |-> "loop", importIndex |-> 0, exportIndex |-> 0,
              exportSlots |-> <<>>, migratings |-> <<>>]
               @@ Classify(planNodes, fsmNode2Slot, 1, avgSlot(planNodes))
  /\ UNCHANGED <<planNodes, fsmNode2Slot>>

\* one turn of the loop that pairs an exporting with an importing node
PlanLoop ==
  /\ plan.pc = "loop"
  /\ plan.importIndex < Len(plan.importingNodes)
  /\ plan.exportIndex < Len(plan.exportingNodes)
  /\ LET avg          == avgSlot(planNodes)
         exportNode   == plan.exportingNodes[plan.exportIndex + 1]
         exportSlots  == IF Len(plan.exportSlots) = 0
                         THEN SubSeq(fsmNode2Slot[exportNode], 1,
                                     Len(fsmNode2Slot[exportNode]) - avg)
                         ELSE plan.exportSlots
         importNode   == plan.importingNodes[plan.importIndex + 1]
         requirements == avg - Len(fsmNode2Slot[importNode])
         task         == [SrcNode |-> exportNode, TargetNode |-> importNode]
     IN  IF requirements <= Len(exportSlots)
         THEN plan' = [plan EXCEPT
                !.migratings = Append(@, task @@
                                 [Slots |-> SubSeq(exportSlots, 1, requirements)]),
                !.exportSlots = SubSeq(exportSlots, requirements + 1, Len(exportSlots)),
                !.importIndex = @ + 1]
         ELSE plan' = [plan EXCEPT
                !.migratings = Append(@, task @@ [Slots |-> exportSlots]),
                !.exportSlots = <<>>,
                !.exportIndex = @ + 1]
  /\ UNCHANGED <<planNodes, fsmNode2Slot>>

\* the loop ends and makeRebalancePlan returns migratings
PlanReturn ==
  /\ plan.pc = "loop"
  /\ ~(/\ plan.importIndex < Len(plan.importingNodes)
       /\ plan.exportIndex < Len(plan.exportingNodes))
  /\ plan' = [plan EXCEPT !.pc = "done"]
  /\ UNCHANGED <<planNodes, fsmNode2Slot>>

\* the slots node n owns in the view the plan read
Owned(n) == {fsmNode2Slot[n][j] : j \in 1..Len(fsmNode2Slot[n])}

\* what holds of the tasks planned so far
PlanTasksOk ==
  plan.pc \in {"loop", "done"} =>
    LET avg == avgSlot(planNodes)
    IN  /\ \A j \in 1..Len(plan.migratings) :
             LET task == plan.migratings[j]
             IN  /\ task.SrcNode # task.TargetNode
                 /\ Cardinality(Owned(task.SrcNode)) > avg + 1
                 /\ Cardinality(Owned(task.TargetNode)) < avg - 1
                 /\ task.Slots # <<>>
                 /\ \A k \in 1..Len(task.Slots) : task.Slots[k] \in Owned(task.SrcNode)
        /\ (\A n \in 1..Len(planNodes) :
              /\ Cardinality(Owned(n)) >= avg - 1
              /\ Cardinality(Owned(n)) <= avg + 1)
             => plan.migratings = <<>>

\* C20: every task of makeRebalancePlan has SrcNode # TargetNode, a SrcNode
\* owning more than avgSlot+1 slots and a TargetNode owning fewer than
\* avgSlot-1 in the view read, and a non-empty list Slots of slots SrcNode
\* owns; the plan is empty when no node is outside [avgSlot-1, avgSlot+1];
\* and the planning loop ends
C20_RebalancePlan ==
  /\ []PlanTasksOk
  /\ <>(plan.pc = "done")

\* a plan in which both branches of the loop have run
C20_Witness ==
  /\ plan.pc = "done"
  /\ plan.importIndex > 0
  /\ plan.exportIndex > 0
  /\ Len(plan.migratings) >= 3

-----------------------------------------------------------------------------
(* cluster/core: doRebalance, round after round, while nodes join           *)

\* the nodes of the cluster once every node has joined: the seed and the
\* two that join it
ClusterNodes == {1, 2, 3}

\* the number of nodes of the cluster once every node has joined
ClusterSize == Cardinality(ClusterNodes)

\* exportCount := len(exportNodeSlots) - avgSlot
exportCount(exportNodeSlots, avg) == Len(exportNodeSlots) - avg

\* the loop of makeRebalancePlan that pairs an exporting with an importing
\* node, from the given indices on: the tasks it appends to migratings
RECURSIVE makeRebalancePlan_loop(_, _, _, _, _, _, _)
makeRebalancePlan_loop(node2Slot, avg, exportingNodes, importingNodes, importIndex, exportIndex, exportSlots) ==
  IF ~(importIndex < Len(importingNodes) /\ exportIndex < Len(exportingNodes))
  THEN <<>>
  ELSE LET exportNode   == exportingNodes[exportIndex + 1]
           slots        == IF Len(exportSlots) = 0
                           THEN SubSeq(node2Slot[exportNode], 1,
                                       exportCount(node2Slot[exportNode], avg))
                           ELSE exportSlots
           importNode   == importingNodes[importIndex + 1]
           requirements == avg - Len(node2Slot[importNode])
           task         == [SrcNode |-> exportNode, TargetNode |-> importNode]
       IN  IF requirements <= Len(slots)
           THEN <<task @@ [Slots |-> SubSeq(slots, 1, requirements)]>>
                  \o makeRebalancePlan_loop(node2Slot, avg, exportingNodes,
                       importingNodes, importIndex + 1, exportIndex,
                       SubSeq(slots, requirements + 1, Len(slots)))
           ELSE <<task @@ [Slots |-> slots]>>
                  \o makeRebalancePlan_loop(node2Slot, avg, exportingNodes,
                       importingNodes, importIndex, exportIndex + 1, <<>>)

\* makeRebalancePlan for the SlotCount slots of the cluster: the tasks it
\* returns when GetNodes() returns nodes and the FSM holds node2Slot
makeRebalancePlan(nodes, node2Slot) ==
  LET avg        == (SlotCount + Len(nodes) - 1) \div Len(nodes)
      classified == Classify(nodes, node2Slot, 1, avg)
  IN  makeRebalancePlan_loop(node2Slot, avg, classified.exportingNodes,
                             classified.importingNodes, 0, 0, <<>>)

\* the slot assignment once the migration of task has finished: its slots
\* leave the source node and are added to the target node
ApplyTask(node2Slot, task) ==
  LET moved == {task.Slots[k] : k \in 1..Len(task.Slots)}
      stays(slot) == slot \notin moved
  IN  [node2Slot EXCEPT
         ![task.SrcNode] = SelectSeq(@, stays),
         ![task.TargetNode] = @ \o task.Slots]

\* the orders in which GetNodes() may list the nodes of the set
NodeOrders(nodeSet) ==
  {order \in [1..Cardinality(nodeSet) -> nodeSet] :
     \A i, j \in DOMAIN order : i # j => order[i] # order[j]}

\* the seed node alone, owning every slot
RebalanceInit ==
  /\ planNodes = <<>>
  /\ fsmNode2Slot = <<[j \in 1..SlotCount |-> j - 1]>>
  /\ plan = [pc |-> "idle"]

\* a node joins the cluster; it owns no slot
RebalanceJoin ==
  /\ Len(fsmNode2Slot) < ClusterSize
  /\ fsmNode2Slot' = Append(fsmNode2Slot, <<>>)
  /\ UNCHANGED <<planNodes, plan>>

\* doRebalance up to the loop over pendingTasks: the plan of this round
RebalancePlan ==
  /\ plan.pc = "idle"
  /\ \E nodes \in NodeOrders(DOMAIN fsmNode2Slot) :
       /\ planNodes' = nodes
       /\ plan' = [pc |-> "planned",
                   migratings |-> makeRebalancePlan(nodes, fsmNode2Slot),
                   pending |-> DOMAIN makeRebalancePlan(nodes, fsmNode2Slot)]
  /\ UNCHANGED fsmNode2Slot

\* the migration of one task of the round finishes
RebalanceApply ==
  /\ plan.pc = "planned"
  /\ \E j \in plan.pending :
       /\ fsmNode2Slot' = ApplyTask(fsmNode2Slot, plan.migratings[j])
       /\ plan' = [plan EXCEPT !.pending = @ \ {j}]
  /\ UNCHANGED planNodes

\* every task of the round is applied: the next round may start
RebalanceRoundEnd ==
  /\ plan.pc = "planned"
  /\ plan.pending = {}
  /\ plan' = [pc |-> "idle"]
  /\ UNCHANGED <<planNodes, fsmNode2Slot>>

\* a round over the whole cluster yielded no task
RebalanceSettled ==
  /\ plan.pc = "planned"
  /\ plan.migratings = <<>>
  /\ Len(planNodes) = ClusterSize

\* C21: at every moment every slot is owned by exactly one node, and when a
\* round over the three nodes yields no task every node owns a number of
\* slots within 2 of ceil(SlotCount/3)
C21_RebalanceOutcome ==
  /\ plan.pc \in {"idle", "planned"} =>
       /\ SumTo([n \in DOMAIN fsmNode2Slot |-> Len(fsmNode2Slot[n])],
                Len(fsmNode2Slot)) = SlotCount
       /\ UNION {Owned(n) : n \in DOMAIN fsmNode2Slot} = 0..(SlotCount - 1)
  /\ RebalanceSettled =>
       \A n \in DOMAIN fsmNode2Slot :
         LET avg  == (SlotCount + ClusterSize - 1) \div ClusterSize
             owns == Len(fsmNode2Slot[n])
         IN  owns >= avg - 2 /\ owns <= avg + 2

\* the three nodes have joined, slots have moved and the rounds have settled
C21_Witness ==
  /\ RebalanceSettled
  /\ \E n \in DOMAIN fsmNode2Slot : Len(fsmNode2Slot[n]) = 340
  /\ fsmNode2Slot[1] # <<>>

-----------------------------------------------------------------------------
(* cluster/core: execMigrationChangeRoute and waitCommitted                 *)

\* the highest raft log index of the model
MaxIndex == 2

\* for i := 0; i < 50; i++
waitAttempts == 50

\* the two nodes of the task: task.SrcNode and task.TargetNode
Peers == {"SrcNode", "TargetNode"}

\* the replies of a peer to getCommittedIndexCommand: an IntReply with its
\* committed index, a StandardErrReply, or some other reply
QueryReplies(peer) ==
  {[type |-> "IntReply", Code |-> peerCommitted[peer]],
   [type |-> "StandardErrReply"],
   [type |-> "other"]}

\* peerIndex >= logIndex, never true of the index itself
committed_after(peerIndex, logIndex) == peerIndex > logIndex

\* peerIndex >= logIndex
committed(peerIndex, logIndex) == peerIndex >= logIndex

\* the command arrives at the leader; the peers have committed some prefix
\* of the log
ChangeRouteInit ==
  /\ \E argc \in 1..3, found \in BOOLEAN :
       changeRoute = [pc |-> "start", argc |-> argc, taskFound |-> found,
                      proposed |-> FALSE, logIndex |-> 0, peer |-> "none",
                      i |-> 0,
                      queries |-> [p \in Peers |-> 0],
                      reached |-> [p \in Peers |-> FALSE],
                      waited |-> [p \in Peers |-> "none"],
                      reply |-> "none"]
  /\ peerCommitted \in [Peers -> 0..MaxIndex]

\* execMigrationChangeRoute up to the first waitCommitted: the checks of the
\* arguments and of the task, and Propose
ChangeRoutePropose ==
  /\ changeRoute.pc = "start"
  /\ IF changeRoute.argc # 2
     THEN changeRoute' = [changeRoute EXCEPT !.pc = "replied", !.reply = "ArgNumErr"]
     ELSE IF ~changeRoute.taskFound
     THEN changeRoute' = [changeRoute EXCEPT !.pc = "replied", !.reply = "Err"]
     ELSE \/ changeRoute' = [changeRoute EXCEPT !.pc = "replied", !.reply = "Err"]
          \/ \E logIndex \in 1..MaxIndex :
               changeRoute' = [changeRoute EXCEPT
                 !.pc = "borrow", !.proposed = TRUE, !.logIndex = logIndex,
                 !.peer = "SrcNode"]
  /\ UNCHANGED peerCommitted

\* waitCommitted: BorrowPeerClient(peer)
WaitBorrow ==
  /\ changeRoute.pc = "borrow"
  /\ \/ changeRoute' = [changeRoute EXCEPT
          !.pc = "replied", !.reply = "Err",
          !.waited[changeRoute.peer] = "borrow failed"]
     \/ changeRoute' = [changeRoute EXCEPT !.pc = "query", !.i = 0]
  /\ UNCHANGED peerCommitted

\* what follows a waitCommitted that returned nil: the second waitCommitted,
\* or the OK reply
AfterWait(cr) ==
  IF cr.peer = "SrcNode"
  THEN [cr EXCEPT !.pc = "borrow", !.peer = "TargetNode"]
  ELSE [cr EXCEPT !.pc = "replied", !.reply = "OK"]

\* waitCommitted: one turn of the loop, with the reply of the peer
WaitQuery ==
  /\ changeRoute.pc = "query"
  /\ changeRoute.i < waitAttempts
  /\ \E reply \in QueryReplies(changeRoute.peer) :
       LET peer == changeRoute.peer
           sent == [changeRoute EXCEPT
                      !.queries[peer] = @ + 1,
                      !.reached[peer] =
                         @ \/ (reply.type = "IntReply"
                                 /\ reply.Code >= changeRoute.logIndex)]
       IN  IF reply.type = "IntReply" /\ committed(reply.Code, changeRoute.logIndex)
           THEN changeRoute' = AfterWait([sent EXCEPT !.waited[peer] = "nil"])
           ELSE changeRoute' = [sent EXCEPT !.i = @ + 1]
  /\ UNCHANGED peerCommitted

\* waitCommitted: the loop ends, "wait committed timeout"
WaitTimeout ==
  /\ changeRoute.pc = "query"
  /\ changeRoute.i >= waitAttempts
  /\ changeRoute' = [changeRoute EXCEPT
       !.pc = "replied", !.reply = "Err",
       !.waited[changeRoute.peer] = "timeout"]
  /\ UNCHANGED peerCommitted

\* a peer commits the next entry of the log
PeerCommit ==
  /\ \E peer \in Peers :
       /\ peerCommitted[peer] < MaxIndex
       /\ peerCommitted' = [peerCommitted EXCEPT ![peer] = @ + 1]
  /\ UNCHANGED changeRoute

\* C22: the reply is OK only if Propose succeeded and then the source and the
\* target each reported a committed index >= the log index of the proposal;
\* a waitCommitted sends at most 50 queries; one that got its connection
\* returns the timeout error exactly when none of the replies of its 50
\* queries reached the index, and then the reply is an error
C22_RouteChangeCommit ==
  /\ changeRoute.reply = "OK" =>
       /\ changeRoute.proposed
       /\ \A p \in Peers : changeRoute.reached[p] /\ changeRoute.waited[p] = "nil"
  /\ \A p \in Peers :
       /\ changeRoute.queries[p] <= waitAttempts
       /\ changeRoute.waited[p] = "timeout" =>
            /\ ~changeRoute.reached[p]
            /\ changeRoute.queries[p] = waitAttempts
            /\ changeRoute.reply = "Err"
       /\ changeRoute.waited[p] = "nil" => changeRoute.reached[p]
       /\ (changeRoute.queries[p] = waitAttempts /\ ~changeRoute.reached[p]
             /\ (changeRoute.pc = "replied" \/ changeRoute.peer # p))
            => changeRoute.waited[p] = "timeout"

\* an OK reply after queries that did not reach the index at first
C22_Witness ==
  /\ changeRoute.reply = "OK"
  /\ changeRoute.queries["SrcNode"] > 1
  /\ changeRoute.queries["TargetNode"] > 1

\* a time-out on the target after the source had committed
C22_WitnessTimeout ==
  /\ changeRoute.waited["SrcNode"] = "nil"
  /\ changeRoute.waited["TargetNode"] = "timeout"

-----------------------------------------------------------------------------
(* dict.ConcurrentDict: Put, PutIfAbsent, PutIfExists, Remove               *)

\* goroutines calling the dict concurrently
NumDictProcs == 2

\* calls each goroutine makes
MaxDictCalls == 2

DictProcs == 1..NumDictProcs

\* keys are byte strings: "a" and "e" share a shard, "b" has another one
DictKeys == {<<97>>, <<101>>, <<98>>}

\* the values stored
DictVals == {1, 2}

\* the four mutators
DictOps == {"Put", "PutIfAbsent", "PutIfExists", "Remove"}

\* s.m[key] = val
MapStore(m, key, val) ==
  [k \in (DOMAIN m) \cup {key} |-> IF k = key THEN val ELSE m[k]]

\* delete(s.m, key)
MapDelete(m, key) == [k \in (DOMAIN m) \ {key} |-> m[k]]

\* Put between Lock and Unlock: the map of the shard afterwards, the result
\* and what is added to dict.count
ConcurrentDict_Put(m, key, val) ==
  IF key \in DOMAIN m
  THEN [m |-> MapStore(m, key, val), result |-> 0, add |-> 0]
  ELSE [m |-> MapStore(m, key, val), result |-> 1, add |-> 1]

\* PutIfAbsent that stores over the key that exists
ConcurrentDict_PutIfAbsent_always(m, key, val) ==
  [m |-> MapStore(m, key, val), result |-> 1, add |-> 1]

\* PutIfAbsent between Lock and Unlock
ConcurrentDict_PutIfAbsent(m, key, val) ==
  IF key \in DOMAIN m
  THEN [m |-> m, result |-> 0, add |-> 0]
  ELSE [m |-> MapStore(m, key, val), result |-> 1, add |-> 1]

\* PutIfExists between Lock and Unlock
ConcurrentDict_PutIfExists(m, key, val) ==
  IF key \in DOMAIN m
  THEN [m |-> MapStore(m, key, val), result |-> 1, add |-> 0]
  ELSE [m |-> m, result |-> 0, add |-> 0]

\* Remove between Lock and Unlock
ConcurrentDict_Remove(m, key) ==
  IF key \in DOMAIN m
  THEN [m |-> MapDelete(m, key), result |-> 1, add |-> -1]
  ELSE [m |-> m, result |-> 0, add |-> 0]

\* the body of the mutator op
ConcurrentDict_Body(op, m, key, val) ==
  CASE op = "Put"         -> ConcurrentDict_Put(m, key, val)
    [] op = "PutIfAbsent" -> ConcurrentDict_PutIfAbsent(m, key, val)
    [] op = "PutIfExists" -> ConcurrentDict_PutIfExists(m, key, val)
    [] op = "Remove"      -> ConcurrentDict_Remove(m, key)

\* dict.table of MakeConcurrent: every shard an empty map and a free mutex
MakeConcurrent == [i \in 0..(tableSize - 1) |-> [m |-> <<>>, w |-> 0, r |-> 0]]

\* a goroutine that has made no call
IdleProc ==
  [pc |-> "idle", op |-> "none", key |-> <<>>, val |-> 0, result |-> -1,
   add |-> 0, calls |-> 0, absent |-> FALSE, removed |-> FALSE, overlap |-> {}]

\* a new dict and goroutines about to use it
DictInit ==
  /\ dictTable = MakeConcurrent
  /\ dictCount = 0
  /\ dictProc = [g \in DictProcs |-> IdleProc]
  /\ dictScan = <<>>
  /\ dictRand = <<>>
  /\ simpleDict = <<>>

\* the goroutines inside a call
InCall == {h \in DictProcs : dictProc[h].pc # "idle"}

\* goroutine g calls a mutator: index := dict.spread(key); s := getShard(index)
DictCall(g, op, key, val) ==
  /\ dictProc[g].pc = "idle"
  /\ dictProc[g].calls < MaxDictCalls
  /\ dictProc' =
       [h \in DictProcs |->
          IF h = g
          THEN [pc |-> "lock", op |-> op, key |-> key, val |-> val,
                result |-> -1, add |-> 0, calls |-> dictProc[g].calls + 1,
                absent |-> key \notin DOMAIN dictTable[Dict_spread(key)].m,
                removed |-> FALSE, overlap |-> InCall]
          ELSE IF h \in InCall
          THEN [dictProc[h] EXCEPT !.overlap = @ \cup {g}]
          ELSE [dictProc[h] EXCEPT !.overlap = @ \ {g}]]
  /\ UNCHANGED <<dictTable, dictCount, dictScan, dictRand, simpleDict>>

\* s.mutex.Lock()
DictLock(g) ==
  LET index == Dict_spread(dictProc[g].key)
  IN  /\ dictProc[g].pc = "lock"
      /\ dictTable[index].w = 0
      /\ dictTable[index].r = 0
      /\ dictTable' = [dictTable EXCEPT ![index].w = g]
      /\ dictProc' = [dictProc EXCEPT ![g].pc = "body"]
      /\ UNCHANGED <<dictCount, dictScan, dictRand, simpleDict>>

\* the test of s.m[key] and the change of the map
DictBody(g) ==
  LET p     == dictProc[g]
      index == Dict_spread(p.key)
      done  == ConcurrentDict_Body(p.op, dictTable[index].m, p.key, p.val)
  IN  /\ p.pc = "body"
      /\ dictTable' = [dictTable EXCEPT ![index].m = done.m]
      /\ dictProc' =
           [h \in DictProcs |->
              IF h = g
              THEN [p EXCEPT !.pc = IF done.add = 0 THEN "unlock" ELSE "count",
                             !.result = done.result, !.add = done.add]
              ELSE IF /\ h \in InCall
                      /\ dictProc[h].key = p.key
                      /\ done.add = -1
              THEN [dictProc[h] EXCEPT !.removed = TRUE]
              ELSE dictProc[h]]
      /\ UNCHANGED <<dictCount, dictScan, dictRand, simpleDict>>

\* dict.addCount() / dict.decreaseCount()
DictAddCount(g) ==
  /\ dictProc[g].pc = "count"
  /\ dictCount' = dictCount + dictProc[g].add
  /\ dictProc' = [dictProc EXCEPT ![g].pc = "unlock"]
  /\ UNCHANGED <<dictTable, dictScan, dictRand, simpleDict>>

\* the deferred s.mutex.Unlock(), and the call returns
DictUnlock(g) ==
  LET index == Dict_spread(dictProc[g].key)
  IN  /\ dictProc[g].pc = "unlock"
      /\ dictTable' = [dictTable EXCEPT ![index].w = 0]
      /\ dictProc' = [dictProc EXCEPT ![g].pc = "idle", ![g].val = 0, ![g].add = 0]
      /\ UNCHANGED <<dictCount, dictScan, dictRand, simpleDict>>

\* the keys stored in the shards
StoredKeys == UNION {DOMAIN dictTable[i].m : i \in DOMAIN dictTable}

\* the number of keys stored across all shards
StoredCount ==
  SumTo([i \in 1..tableSize |-> Cardinality(DOMAIN dictTable[i - 1].m)], tableSize)

\* two calls of PutIfAbsent on one key that was absent when each was made,
\* overlapping in time, with no Remove of the key during either
ConcurrentPutIfAbsent(g, h) ==
  /\ g # h
  /\ h \in dictProc[g].overlap /\ g \in dictProc[h].overlap
  /\ dictProc[g].op = "PutIfAbsent" /\ dictProc[h].op = "PutIfAbsent"
  /\ dictProc[g].key = dictProc[h].key
  /\ dictProc[g].absent /\ dictProc[h].absent
  /\ ~dictProc[g].removed /\ ~dictProc[h].removed
  /\ dictProc[g].result # -1 /\ dictProc[h].result # -1

\* C23: dict.count is never negative; when every call has returned it is the
\* number of keys stored across the shards; of two concurrent PutIfAbsent
\* calls for the same absent key exactly one returns 1
C23_ElementCount ==
  /\ dictCount >= 0
  /\ InCall = {} => dictCount = StoredCount
  /\ \A g, h \in DictProcs :
       ConcurrentPutIfAbsent(g, h) =>
         {dictProc[g].result, dictProc[h].result} = {0, 1}

\* two concurrent PutIfAbsent calls for one absent key have both returned,
\* and a Remove has run before
C23_Witness ==
  /\ InCall = {}
  /\ \E g, h \in DictProcs : ConcurrentPutIfAbsent(g, h) /\ dictProc[g].calls = 2
  /\ dictCount = 1

-----------------------------------------------------------------------------
(* dict.SimpleDict, and the ConcurrentDict called by one goroutine          *)

\* SimpleDict.Put that reports every store as an insertion
SimpleDict_Put_one(m, key, val) == [m |-> MapStore(m, key, val), result |-> 1]

\* SimpleDict.Put
SimpleDict_Put(m, key, val) ==
  [m |-> MapStore(m, key, val), result |-> IF key \in DOMAIN m THEN 0 ELSE 1]

\* SimpleDict.PutIfAbsent
SimpleDict_PutIfAbsent(m, key, val) ==
  IF key \in DOMAIN m
  THEN [m |-> m, result |-> 0]
  ELSE [m |-> MapStore(m, key, val), result |-> 1]

\* SimpleDict.PutIfExists
SimpleDict_PutIfExists(m, key, val) ==
  IF key \in DOMAIN m
  THEN [m |-> MapStore(m, key, val), result |-> 1]
  ELSE [m |-> m, result |-> 0]

\* SimpleDict.Remove
SimpleDict_Remove(m, key) ==
  [m |-> MapDelete(m, key), result |-> IF key \in DOMAIN m THEN 1 ELSE 0]

\* the mutator op of the SimpleDict
SimpleDict_Call(op, m, key, val) ==
  CASE op = "Put"         -> SimpleDict_Put(m, key, val)
    [] op = "PutIfAbsent" -> SimpleDict_PutIfAbsent(m, key, val)
    [] op = "PutIfExists" -> SimpleDict_PutIfExists(m, key, val)
    [] op = "Remove"      -> SimpleDict_Remove(m, key)

\* the key-value pairs of all shards as one map
DictContents ==
  [k \in StoredKeys |-> dictTable[Dict_spread(k)].m[k]]

\* a new ConcurrentDict and a new SimpleDict
DictSeqInit ==
  /\ dictTable = MakeConcurrent
  /\ dictCount = 0
  /\ dictProc = [g \in DictProcs |-> IdleProc]
  /\ dictScan = <<>>
  /\ dictRand = <<>>
  /\ simpleDict = [m |-> <<>>, op |-> "none"]

\* one goroutine calls the mutator op on the ConcurrentDict, from Lock to
\* Unlock, and on the SimpleDict
DictSeqCall(op, key, val) ==
  LET index == Dict_spread(key)
      done  == ConcurrentDict_Body(op, dictTable[index].m, key, val)
      same  == SimpleDict_Call(op, simpleDict.m, key, val)
  IN  /\ dictTable[index].w = 0 /\ dictTable[index].r = 0
      /\ dictTable' = [dictTable EXCEPT ![index].m = done.m]
      /\ dictCount' = dictCount + done.add
      /\ simpleDict' = [m |-> same.m, op |-> op, key |-> key, val |-> val,
                        before |-> simpleDict.m, result |-> same.result,
                        concurrentBefore |-> DictContents,
                        concurrentResult |-> done.result]
      /\ UNCHANGED <<dictProc, dictScan, dictRand>>

\* what the last call did to the map it found
Inserted(was, now, key) == key \notin DOMAIN was /\ key \in DOMAIN now

Overwrote(op, was, key) ==
  op \in {"Put", "PutIfExists"} /\ key \in DOMAIN was

Removed(was, now, key) == key \in DOMAIN was /\ key \notin DOMAIN now

\* the result codes as stated: 1 exactly when the call inserted, overwrote or
\* removed an entry, 0 exactly when it left the map unchanged
ResultAsStated(op, was, now, key, result) ==
  /\ result \in {0, 1}
  /\ result = 1 <=> \/ Inserted(was, now, key)
                    \/ Overwrote(op, was, key)
                    \/ Removed(was, now, key)
  /\ result = 0 <=> now = was

\* C24 as stated, for both dicts
C24_ResultCodes ==
  simpleDict.op # "none" =>
    /\ ResultAsStated(simpleDict.op, simpleDict.before, simpleDict.m,
                      simpleDict.key, simpleDict.result)
    /\ ResultAsStated(simpleDict.op, simpleDict.concurrentBefore, DictContents,
                      simpleDict.key, simpleDict.concurrentResult)

\* the result codes of the code: Put returns 1 exactly when the key was
\* absent (an insertion) and 0 when it overwrote; PutIfAbsent returns 1
\* exactly when it inserted and 0 when it left the map unchanged; PutIfExists
\* returns 1 exactly when the key was present (its value is stored again) and
\* 0 when it left the map unchanged; Remove returns 1 exactly when it removed
\* the entry and 0 when it left the map unchanged
ResultOfCode(op, was, now, key, val, result) ==
  /\ result \in {0, 1}
  /\ op = "Put" =>
       /\ now = MapStore(was, key, val)
       /\ result = 1 <=> key \notin DOMAIN was
  /\ op = "PutIfAbsent" =>
       /\ result = 1 <=> Inserted(was, now, key)
       /\ result = 1 => now = MapStore(was, key, val)
       /\ result = 0 <=> now = was
  /\ op = "PutIfExists" =>
       /\ result = 1 <=> key \in DOMAIN was
       /\ result = 1 => now = MapStore(was, key, val)
       /\ result = 0 => now = was
  /\ op = "Remove" =>
       /\ result = 1 <=> Removed(was, now, key)
       /\ now = MapDelete(was, key)
       /\ result = 0 <=> now = was

\* C24, amended: Put returns 1 exactly when it inserted a new entry and 0
\* when it overwrote one; PutIfExists returns 1 exactly when the key was
\* present; PutIfAbsent and Remove return 1 exactly when they inserted or
\* removed an entry and 0 exactly when the map is unchanged; the
\* ConcurrentDict and the SimpleDict return the same code and hold the same
\* entries
C24_ResultCodesOfCode ==
  simpleDict.op # "none" =>
    /\ ResultOfCode(simpleDict.op, simpleDict.before, simpleDict.m,
                    simpleDict.key, simpleDict.val, simpleDict.result)
    /\ ResultOfCode(simpleDict.op, simpleDict.concurrentBefore, DictContents,
                    simpleDict.key, simpleDict.val, simpleDict.concurrentResult)
    /\ simpleDict.result = simpleDict.concurrentResult
    /\ simpleDict.m = DictContents
    /\ dictCount = Cardinality(DOMAIN simpleDict.m)

\* a Put that overwrote the value of a key with another value
C24_Witness ==
  /\ simpleDict.op = "Put"
  /\ simpleDict.key \in DOMAIN simpleDict.before
  /\ simpleDict.before[simpleDict.key] # simpleDict.val
  /\ simpleDict.result = 0
  /\ simpleDict.concurrentResult = 0

-----------------------------------------------------------------------------
(* dict.ConcurrentDict: DictScan                                             *)

\* the largest count a scan is called with
MaxScanCount == 3

\* the keys of the dict that is scanned: "c" on shard 0, "b" on shard 1,
\* "a" and "e" on shard 2, "d" on shard 3
ScanKeys == DictKeys \cup {<<99>>, <<100>>}

\* the patterns: "*" and "[ab]"
Patterns == {"*", "[ab]"}

\* matchKey.IsMatch(key) for the compiled pattern
IsMatch(pattern, key) ==
  IF pattern = "*" THEN TRUE ELSE key \in {<<97>>, <<98>>}

\* the sequences that hold every element of the set once: the orders in
\* which a range over a map may visit its keys
RangeOrders(set) ==
  {order \in [1..Cardinality(set) -> set] :
     \A i, j \in DOMAIN order : i # j => order[i] # order[j]}

\* the dict that holds the given keys
DictOf(keys) ==
  [i \in 0..(tableSize - 1) |->
     [m |-> [k \in {key \in keys : Dict_spread(key) = i} |-> 1],
      w |-> 0, r |-> 0]]

\* len(result)+len(shard.m) > count && shardIndex > cursor, the first shard
\* of the call included
scanStop_first(resultLen, shardLen, count, shardIndex, cursor) ==
  resultLen + shardLen > count /\ shardIndex >= cursor

\* len(result)+len(shard.m) > count && shardIndex > cursor
scanStop(resultLen, shardLen, count, shardIndex, cursor) ==
  resultLen + shardLen > count /\ shardIndex > cursor

\* a dict with some keys, and a scan of it about to begin
ScanInit ==
  /\ \E keys \in SUBSET ScanKeys :
       /\ dictTable = DictOf(keys)
       /\ dictCount = Cardinality(keys)
  /\ \E count \in 0..MaxScanCount, pattern \in Patterns :
       dictScan = [pc |-> "idle", count |-> count, pattern |-> pattern,
                   cursor |-> 0, shardIndex |-> 0, result |-> <<>>,
                   reads |-> <<>>, calls |-> <<>>]
  /\ dictProc = [g \in DictProcs |-> IdleProc]
  /\ dictRand = <<>>
  /\ simpleDict = <<>>

\* the scan is over: the last call returned the cursor 0
ScanOver ==
  /\ dictScan.calls # <<>>
  /\ dictScan.calls[Len(dictScan.calls)].next = 0

\* the call returns result and the cursor next
ScanReturned(scan, result, next) ==
  [scan EXCEPT
     !.pc = "idle",
     !.calls = Append(@, [cursor |-> scan.cursor, next |-> next,
                          result |-> result, reads |-> scan.reads]),
     !.cursor = next, !.result = <<>>, !.reads = <<>>]

\* DictScan(cursor, count, pattern) is called with the cursor the call
\* before returned: up to the loop, or to the call of Keys
ScanCall ==
  /\ dictScan.pc = "idle"
  /\ ~ScanOver
  /\ dictScan' = [dictScan EXCEPT
       !.pc = IF dictScan.pattern = "*" /\ dictScan.count >= dictCount
              THEN "keys" ELSE "loop",
       !.shardIndex = IF dictScan.pattern = "*" /\ dictScan.count >= dictCount
                      THEN 0 ELSE dictScan.cursor]
  /\ UNCHANGED <<dictTable, dictCount, dictProc, dictRand, simpleDict>>

\* shard.mutex.RLock(), in the loop of DictScan or in ForEach under Keys
ScanRLock ==
  /\ dictScan.pc \in {"loop", "keys"}
  /\ dictScan.shardIndex < tableSize
  /\ dictTable[dictScan.shardIndex].w = 0
  /\ dictTable' = [dictTable EXCEPT ![dictScan.shardIndex].r = @ + 1]
  /\ dictScan' = [dictScan EXCEPT
       !.pc = IF dictScan.pc = "loop" THEN "locked" ELSE "keysLocked"]
  /\ UNCHANGED <<dictCount, dictProc, dictRand, simpleDict>>

\* the loop of DictScan with the shard read-locked: it returns the shard
\* index as the next cursor, or collects the matching keys of the shard;
\* RUnlock either way
ScanVisit ==
  LET shardIndex == dictScan.shardIndex
      m          == dictTable[shardIndex].m
      matching   == {key \in DOMAIN m : dictScan.pattern = "*"
                                          \/ IsMatch(dictScan.pattern, key)}
  IN  /\ dictScan.pc = "locked"
      /\ dictTable' = [dictTable EXCEPT ![shardIndex].r = @ - 1]
      /\ IF scanStop(Len(dictScan.result), Cardinality(DOMAIN m),
                     dictScan.count, shardIndex, dictScan.cursor)
         THEN dictScan' = ScanReturned(dictScan, dictScan.result, shardIndex)
         ELSE \E order \in RangeOrders(matching) :
                dictScan' = [dictScan EXCEPT
                  !.pc = "loop",
                  !.result = @ \o order,
                  !.reads = Append(@, shardIndex),
                  !.shardIndex = @ + 1]
      /\ UNCHANGED <<dictCount, dictProc, dictRand, simpleDict>>

\* the loop of DictScan ends: return result, 0
ScanEnd ==
  /\ dictScan.pc = "loop"
  /\ dictScan.shardIndex >= tableSize
  /\ dictScan' = ScanReturned(dictScan, dictScan.result, 0)
  /\ UNCHANGED <<dictTable, dictCount, dictProc, dictRand, simpleDict>>

\* Keys under DictScan: ForEach takes the keys of the read-locked shard and
\* unlocks it
ScanKeysVisit ==
  LET shardIndex == dictScan.shardIndex
  IN  /\ dictScan.pc = "keysLocked"
      /\ dictTable' = [dictTable EXCEPT ![shardIndex].r = @ - 1]
      /\ \E order \in RangeOrders(DOMAIN dictTable[shardIndex].m) :
           dictScan' = [dictScan EXCEPT
             !.pc = "keys",
             !.result = @ \o order,
             !.reads = Append(@, shardIndex),
             !.shardIndex = @ + 1]
      /\ UNCHANGED <<dictCount, dictProc, dictRand, simpleDict>>

\* return stringsToBytes(dict.Keys()), 0
ScanKeysEnd ==
  /\ dictScan.pc = "keys"
  /\ dictScan.shardIndex >= tableSize
  /\ dictScan' = ScanReturned(dictScan, dictScan.result, 0)
  /\ UNCHANGED <<dictTable, dictCount, dictProc, dictRand, simpleDict>>

\* the results, and the shards read, of the calls made so far, one after
\* the other
RECURSIVE ScanResults(_)
ScanResults(j) ==
  IF j = 0 THEN <<>> ELSE ScanResults(j - 1) \o dictScan.calls[j].result

RECURSIVE ScanReads(_)
ScanReads(j) ==
  IF j = 0 THEN <<>> ELSE ScanReads(j - 1) \o dictScan.calls[j].reads

\* the number of positions of the sequence that hold x
Occurrences(s, x) == Cardinality({i \in DOMAIN s : s[i] = x})

\* C25: in a scan from cursor 0 on a dict nobody changes, every returned
\* non-zero cursor is greater than the cursor passed in, so there are at most
\* tableSize calls; every call reads at least one whole shard; once 0 is
\* returned every shard was read exactly once and every key that matches
\* the pattern was returned exactly once, and no other key; and no read lock
\* is held when a call has returned
C25_IncrementalScan ==
  /\ Len(dictScan.calls) <= tableSize
  /\ \A j \in DOMAIN dictScan.calls :
       /\ dictScan.calls[j].next # 0 =>
            dictScan.calls[j].next > dictScan.calls[j].cursor
       /\ Len(dictScan.calls[j].reads) >= 1
  /\ ScanOver =>
       /\ \A i \in 0..(tableSize - 1) :
            Occurrences(ScanReads(Len(dictScan.calls)), i) = 1
       /\ \A key \in ScanKeys :
            Occurrences(ScanResults(Len(dictScan.calls)), key) =
              IF key \in StoredKeys /\ IsMatch(dictScan.pattern, key)
              THEN 1 ELSE 0
  /\ dictScan.pc = "idle" =>
       \A i \in 0..(tableSize - 1) : dictTable[i].r = 0

\* a scan of several calls is over and has returned keys
C25_Witness ==
  /\ ScanOver
  /\ Len(dictScan.calls) >= 3
  /\ Len(ScanResults(Len(dictScan.calls))) >= 2
  /\ dictScan.pattern # "*"

-----------------------------------------------------------------------------
(* dict.ConcurrentDict: RandomDistinctKeys, Keys and shard.RandomKey        *)

\* the largest limit RandomDistinctKeys is called with
MaxLimit == 2

\* the key "" that RandomKey returns for an empty shard and that fills a
\* new slice of strings
EmptyKey == <<>>

\* a dict with some keys, before RandomDistinctKeys is called
RandInit ==
  /\ \E keys \in SUBSET DictKeys :
       /\ dictTable = DictOf(keys)
       /\ dictCount = Cardinality(keys)
  /\ dictRand = [pc |-> "idle"]
  /\ dictProc = [g \in DictProcs |-> IdleProc]
  /\ dictScan = <<>>
  /\ simpleDict = <<>>

\* RandomDistinctKeys(limit): size := dict.Len() and the test limit >= size
RandCall(limit) ==
  /\ dictRand.pc = "idle"
  /\ dictRand' = [pc |-> IF limit >= dictCount THEN "keys" ELSE "loop",
                  limit |-> limit, size |-> dictCount,
                  atCall |-> StoredKeys,
                  quiet |-> \A g \in DictProcs : dictProc[g].calls = 0,
                  result |-> {}, shardIndex |-> 0, keys |-> <<>>, i |-> 0,
                  returned |-> <<>>]
  /\ UNCHANGED <<dictTable, dictCount, dictProc, dictScan, simpleDict>>

\* shard.RandomKey under the read lock of the shard: the key the range over
\* the map visits first, or "" for an empty map
RandomKey(m) == IF DOMAIN m = {} THEN {EmptyKey} ELSE DOMAIN m

\* one turn of the loop of RandomDistinctKeys: nR.Intn(shardCount) returns
\* shardIndex, s.RandomKey() takes the read lock of the shard and returns
\* key, and the key is added to result
RandPick(shardIndex, key) ==
  /\ dictRand.pc = "loop"
  /\ Cardinality(dictRand.result) < dictRand.limit
  /\ dictTable[shardIndex].w = 0
  /\ key \in RandomKey(dictTable[shardIndex].m)
  /\ dictRand' = [dictRand EXCEPT
       !.shardIndex = shardIndex,
       !.result = IF key # EmptyKey THEN @ \cup {key} ELSE @]
  /\ UNCHANGED <<dictTable, dictCount, dictProc, dictScan, simpleDict>>

\* the loop has ended: the keys of result are copied to arr and returned
RandReturn ==
  /\ dictRand.pc = "loop"
  /\ ~(Cardinality(dictRand.result) < dictRand.limit)
  /\ \E arr \in RangeOrders(dictRand.result) :
       dictRand' = [dictRand EXCEPT !.pc = "returned", !.returned = arr]
  /\ UNCHANGED <<dictTable, dictCount, dictProc, dictScan, simpleDict>>

\* Keys: keys := make([]string, dict.Len())
RandKeysMake ==
  /\ dictRand.pc = "keys"
  /\ dictRand' = [dictRand EXCEPT
       !.pc = "foreach", !.shardIndex = 0, !.i = 0,
       !.keys = [j \in 1..dictCount |-> EmptyKey]]
  /\ UNCHANGED <<dictTable, dictCount, dictProc, dictScan, simpleDict>>

\* the consumer of Keys applied to the keys of order, one after the other:
\* keys[i] = key while i < len(keys), append(keys, key) afterwards
RECURSIVE KeysConsume(_, _, _, _)
KeysConsume(keys, i, order, j) ==
  IF j > Len(order) THEN [keys |-> keys, i |-> i]
  ELSE IF i < Len(keys)
  THEN KeysConsume([keys EXCEPT ![i + 1] = order[j]], i + 1, order, j + 1)
  ELSE KeysConsume(Append(keys, order[j]), i, order, j + 1)

\* ForEach under Keys: one shard, from RLock to RUnlock
RandKeysShard ==
  /\ dictRand.pc = "foreach"
  /\ dictRand.shardIndex < tableSize
  /\ dictTable[dictRand.shardIndex].w = 0
  /\ \E order \in RangeOrders(DOMAIN dictTable[dictRand.shardIndex].m) :
       LET done == KeysConsume(dictRand.keys, dictRand.i, order, 1)
       IN  dictRand' = [dictRand EXCEPT
             !.keys = done.keys, !.i = done.i, !.shardIndex = @ + 1]
  /\ UNCHANGED <<dictTable, dictCount, dictProc, dictScan, simpleDict>>

\* return dict.Keys()
RandKeysReturn ==
  /\ dictRand.pc = "foreach"
  /\ dictRand.shardIndex >= tableSize
  /\ dictRand' = [dictRand EXCEPT !.pc = "returned", !.returned = dictRand.keys]
  /\ UNCHANGED <<dictTable, dictCount, dictProc, dictScan, simpleDict>>

\* the smaller of two numbers
Smaller(a, b) == IF a < b THEN a ELSE b

\* what holds of the keys a call has returned: at most min(limit, Len at
\* call time) of them, pairwise distinct; and, when no Put or Remove was
\* ever called, exactly min(limit, Len) keys that are all in the dict
RandReturnedOk ==
  dictRand.pc = "returned" =>
    LET arr == dictRand.returned
    IN  /\ Len(arr) <= Smaller(dictRand.limit, dictRand.size)
        /\ \A i, j \in DOMAIN arr : i # j => arr[i] # arr[j]
        /\ (\A g \in DictProcs : dictProc[g].calls = 0) =>
             /\ Len(arr) = Smaller(dictRand.limit, dictRand.size)
             /\ \A i \in DOMAIN arr : arr[i] \in StoredKeys

\* C26: a call of RandomDistinctKeys returns, whatever Put and Remove calls
\* run beside it, and what it returns is at most min(limit, Len at call
\* time) pairwise distinct keys; with no Put or Remove it is exactly
\* min(limit, Len) distinct keys of the dict
C26_RandomDistinctKeys ==
  /\ []RandReturnedOk
  /\ (dictRand.pc # "idle") ~> (dictRand.pc = "returned")

\* the call returns
C26_Terminates == (dictRand.pc # "idle") ~> (dictRand.pc = "returned")

\* the call returns unless a Put or a Remove is called
C26_QuietTerminates ==
  (dictRand.pc # "idle") ~>
     (dictRand.pc = "returned" \/ \E g \in DictProcs : dictProc[g].calls > 0)

\* what holds of the keys returned when no Put or Remove was ever called
C26_QuietReturn ==
  (dictRand.pc = "returned" /\ \A g \in DictProcs : dictProc[g].calls = 0) =>
    RandReturnedOk

-----------------------------------------------------------------------------
(* tcp: ListenAndServe                                                       *)

\* connections that clients open
MaxConns == 2

\* the errors Accept returns: a net.Error that reports Timeout(), a
\* net.Error that does not, and an error that is no net.Error
AcceptErrors ==
  {[netError |-> TRUE, timeout |-> TRUE],
   [netError |-> TRUE, timeout |-> FALSE],
   [netError |-> FALSE, timeout |-> FALSE]}

\* ne, ok := err.(net.Error); ok && ne.Timeout(), for no error at all
IsTemporary_never(err) == FALSE

\* ne, ok := err.(net.Error); ok && ne.Timeout()
IsTemporary(err) == err.netError /\ err.timeout

\* ListenAndServe has made errCh and started the goroutine that waits for
\* the shutdown, and is about to call Accept
ServerInit ==
  server = [main |-> "accept", closer |-> "select", listenerClosed |-> FALSE,
            signal |-> "none", errCh |-> <<>>, errChClosed |-> FALSE,
            waitDone |-> 0, accepted |-> 0, closes |-> 0,
            handled |-> 0, sawTimeout |-> FALSE, sawError |-> FALSE,
            lateAccepts |-> 0, cause |-> "none"]

\* a signal makes the sender offer a value on closeChan
SignalSent ==
  /\ server.signal = "none"
  /\ server' = [server EXCEPT !.signal = "offered"]

\* the select of the goroutine takes the value from closeChan
CloserSignal ==
  /\ server.closer = "select"
  /\ server.signal = "offered"
  /\ server' = [server EXCEPT !.closer = "closeListener", !.signal = "arrived",
                              !.cause = "closeChan"]

\* the select of the goroutine takes the error from errCh
CloserError ==
  /\ server.closer = "select"
  /\ server.errCh # <<>>
  /\ server' = [server EXCEPT !.closer = "closeListener", !.errCh = Tail(@),
                              !.cause = "errCh"]

\* listener.Close()
CloserCloseListener ==
  /\ server.closer = "closeListener"
  /\ server' = [server EXCEPT !.closer = "closeHandler", !.listenerClosed = TRUE]

\* handler.Close()
CloserCloseHandler ==
  /\ server.closer = "closeHandler"
  /\ server' = [server EXCEPT !.closer = "done", !.closes = @ + 1]

\* Accept returns a connection: waitDone.Add(1) and the goroutine that runs
\* handler.Handle is started
AcceptConn ==
  /\ server.main = "accept"
  /\ ~server.listenerClosed
  /\ server.accepted < MaxConns
  /\ server' = [server EXCEPT
       !.accepted = @ + 1, !.waitDone = @ + 1,
       !.lateAccepts = IF server.sawError THEN @ + 1 ELSE @]

\* Accept returns an error: the loop goes on after a temporary one, and
\* sends any other to errCh and ends; on a closed listener the error is no
\* timeout
AcceptError(err) ==
  /\ server.main = "accept"
  /\ server.listenerClosed => ~err.timeout
  /\ IF IsTemporary(err)
     THEN server' = [server EXCEPT !.sawTimeout = TRUE]
     ELSE /\ Len(server.errCh) < 1
          /\ server' = [server EXCEPT
               !.main = "wait", !.errCh = Append(@, err),
               !.sawError = ~err.timeout \/ @]

\* handler.Handle returns in one of the goroutines: waitDone.Done()
HandlerReturn ==
  /\ server.handled < server.accepted
  /\ server' = [server EXCEPT !.handled = @ + 1, !.waitDone = @ - 1]

\* waitDone.Wait() returns, ListenAndServe returns and the deferred
\* close(errCh) runs
ServeReturn ==
  /\ server.main = "wait"
  /\ server.waitDone = 0
  /\ server' = [server EXCEPT !.main = "returned", !.errChClosed = TRUE]

\* a value has arrived on closeChan, or Accept has returned an error that
\* is no timeout
ShutdownDue == server.signal = "arrived" \/ server.sawError

\* what holds at every moment of the shutdown: handler.Close is invoked at
\* most once, and only after listener.Close; the shutdown is triggered by
\* nothing but a value on closeChan or an Accept error that is no timeout;
\* no connection is accepted once the listener is closed or the loop has
\* ended; ListenAndServe has returned only if every handler.Handle has
ShutdownSafe ==
  /\ server.closes <= 1
  /\ server.closes = 1 => server.listenerClosed
  /\ (server.closer # "select" \/ server.main # "accept") => ShutdownDue
  /\ server.lateAccepts = 0
  /\ server.main = "returned" => server.handled = server.accepted

-----------------------------------------------------------------------------
(* list.QuickList: the pages, and the removals by value *)

\* the iterator find(index) returns on a list that holds index
IteratorAt(ql, index) ==
  LET it == QuickList_find(ql, index) IN [node |-> it.node, offset |-> it.offset]

\* iterator.atEnd()
iterator_atEnd(ql, it) ==
  IF Len(ql.data) = 0 THEN TRUE
  ELSE IF it.node # Len(ql.data) THEN FALSE
  ELSE it.offset = Len(ql.data[it.node].elems)

\* iterator.atBegin()
iterator_atBegin(ql, it) ==
  IF Len(ql.data) = 0 THEN TRUE
  ELSE IF it.node # 1 THEN FALSE
  ELSE it.offset = -1

\* iterator.prev(): node 0 is the nil node, which is what Front() returns
\* on a list without pages
iterator_prev(ql, it) ==
  IF it.offset > 0 THEN [it EXCEPT !.offset = @ - 1]
  ELSE IF it.node = (IF Len(ql.data) = 0 THEN 0 ELSE 1) THEN [it EXCEPT !.offset = -1]
  ELSE [node |-> it.node - 1, offset |-> Len(ql.data[it.node - 1].elems) - 1]

\* iterator.remove(): where the iterator stands afterwards, in the list
\* without the unlinked page
iterator_remove_move(ql, it) ==
  LET n    == Len(ql.data)
      left == Len(ql.data[it.node].elems) - 1
  IN  IF left > 0
      THEN IF it.offset = left /\ it.node # n
           THEN [node |-> it.node + 1, offset |-> 0]
           ELSE it
      ELSE IF it.node = n
      THEN IF it.node > 1
           THEN [node |-> it.node - 1, offset |-> Len(ql.data[it.node - 1].elems)]
           ELSE [node |-> 0, offset |-> 0]
      ELSE [node |-> it.node, offset |-> 0]

\* the loop of RemoveAllByVal (count = 0) and of RemoveByVal
RECURSIVE RemoveByVal_loop(_, _, _, _, _)
RemoveByVal_loop(ql, it, expected, count, removed) ==
  IF iterator_atEnd(ql, it) THEN [ql |-> ql, removed |-> removed]
  ELSE IF iterator_get(ql, it) = expected
  THEN LET ql2 == iterator_remove(ql, it).ql
           it2 == iterator_remove_move(ql, it)
       IN  IF count # 0 /\ removed + 1 = count
           THEN [ql |-> ql2, removed |-> removed + 1]
           ELSE RemoveByVal_loop(ql2, it2, expected, count, removed + 1)
  ELSE RemoveByVal_loop(ql, iterator_next(ql, it).it, expected, count, removed)

\* QuickList.RemoveAllByVal(expected): find(0) panics on an empty list
QuickList_RemoveAllByVal(ql, expected) ==
  IF ql.size = 0 THEN Panic
  ELSE [panic |-> FALSE] @@ RemoveByVal_loop(ql, IteratorAt(ql, 0), expected, 0, 0)

\* QuickList.RemoveByVal(expected, count): the loop ends only at the end of
\* the list when count is not reached, as with count <= 0
QuickList_RemoveByVal(ql, expected, count) ==
  IF ql.size = 0 THEN [ql |-> ql, removed |-> 0]
  ELSE RemoveByVal_loop(ql, IteratorAt(ql, 0), expected, count, 0)

\* the loop of ReverseRemoveByVal
RECURSIVE ReverseRemoveByVal_loop(_, _, _, _, _)
ReverseRemoveByVal_loop(ql, it, expected, count, removed) ==
  IF iterator_atBegin(ql, it) THEN [ql |-> ql, removed |-> removed]
  ELSE IF iterator_get(ql, it) = expected
  THEN LET ql2 == iterator_remove(ql, it).ql
           it2 == iterator_remove_move(ql, it)
       IN  IF removed + 1 = count
           THEN [ql |-> ql2, removed |-> removed + 1]
           ELSE ReverseRemoveByVal_loop(ql2, iterator_prev(ql2, it2), expected,
                                        count, removed + 1)
  ELSE ReverseRemoveByVal_loop(ql, iterator_prev(ql, it), expected, count, removed)

\* QuickList.ReverseRemoveByVal(expected, count)
QuickList_ReverseRemoveByVal(ql, expected, count) ==
  IF ql.size = 0 THEN [ql |-> ql, removed |-> 0]
  ELSE ReverseRemoveByVal_loop(ql, IteratorAt(ql, ql.size - 1), expected, count, 0)

\* a call on the QuickList alone that leaves it as next
PagesCall(op, next, removed) ==
  /\ quickList' = next
  /\ listRet' = [op |-> op, oob |-> FALSE, was |-> QuickList_ForEach(quickList),
                 removed |-> removed]
  /\ UNCHANGED linkedList

\* the lengths of the pages, summed
RECURSIVE PageLenSum(_)
PageLenSum(data) ==
  IF data = <<>> THEN 0 ELSE Len(Head(data).elems) + PageLenSum(Tail(data))

\* size is the sum of the lengths of the linked pages and no linked page is
\* empty
PagesLinked ==
  /\ quickList.size = PageLenSum(quickList.data)
  /\ \A n \in 1..Len(quickList.data) : Len(quickList.data[n].elems) > 0

\* no page holds more than pageSize elements
PagesWithinPageSize ==
  \A n \in 1..Len(quickList.data) : Len(quickList.data[n].elems) <= pageSize

\* the elements equal to val, counted
RECURSIVE CountVal(_, _)
CountVal(s, val) ==
  IF s = <<>> THEN 0 ELSE (IF Head(s) = val THEN 1 ELSE 0) + CountVal(Tail(s), val)

\* C28: after any sequence of Add, Insert, Remove, RemoveLast,
\* RemoveAllByVal, RemoveByVal and ReverseRemoveByVal calls, size is the sum
\* of the lengths of the linked pages, no linked page is empty and no page
\* holds more than pageSize elements
C28_PageInvariant == PagesLinked /\ PagesWithinPageSize

\* the part of C28 that the code keeps: size is the sum of the page lengths
\* and no linked page is empty, and a removal by value removes as many
\* elements as it reports
C28_PagesLinked ==
  /\ PagesLinked
  /\ listRet.op \in {"RemoveAllByVal", "RemoveByVal", "ReverseRemoveByVal"} =>
       Len(listRet.was) - listRet.removed = quickList.size

\* a removal by value has unlinked a page of a list of several pages
C28_PagesLinkedWitness ==
  /\ listRet.op \in {"RemoveAllByVal", "RemoveByVal", "ReverseRemoveByVal"}
  /\ listRet.removed >= 2
  /\ Len(quickList.data) = 1
  /\ quickList.size >= 2

-----------------------------------------------------------------------------
(* list.QuickList: the split of a full page *)

\* the step is an Insert(index, v) with index < Len whose page holds
\* pageSize elements
SplitStep ==
  /\ listRet'.op = "Insert"
  /\ listRet'.index < quickList.size
  /\ listRet'.target = pageSize

\* what the split leaves: the page and a new page linked directly after it,
\* which together hold the former elements with v at the offset, each of a
\* length between pageSize/2 and pageSize; the other pages are as before
SplitOutcome ==
  LET it    == QuickList_find(quickList, listRet'.index)
      n     == it.node
      old   == quickList.data[n].elems
      data2 == quickList'.data
  IN  /\ ~listRet'.qlPanic
      /\ Len(data2) = Len(quickList.data) + 1
      /\ data2[n].elems \o data2[n + 1].elems
           = SubSeq(old, 1, it.offset) \o <<listRet'.val>>
               \o SubSeq(old, it.offset + 1, Len(old))
      /\ \A k \in {n, n + 1} :
           /\ Len(data2[k].elems) >= pageSize \div 2
           /\ Len(data2[k].elems) <= pageSize
      /\ \A k \in 1..Len(quickList.data) :
           /\ k < n => data2[k] = quickList.data[k]
           /\ k > n => data2[k + 1] = quickList.data[k]
      /\ quickList'.size = quickList.size + 1

\* C29: an Insert(index, v) with index < Len into a page that holds pageSize
\* elements leaves that page and a new page linked directly after it, which
\* together hold the former pageSize elements and v in the right order, each
\* of them with at least pageSize/2 and at most pageSize elements
C29_PageSplit == [][SplitStep => SplitOutcome]_vars

\* a full page has been split by an Insert into its first half, and the
\* page split off is the last
C29_Witness ==
  /\ listRet.op = "Insert"
  /\ listRet.target = pageSize
  /\ listRet.index < pageSize \div 2
  /\ Len(quickList.data) = 2
  /\ Len(quickList.data[1].elems) = pageSize \div 2 + 1
  /\ Len(quickList.data[2].elems) = pageSize - pageSize \div 2

-----------------------------------------------------------------------------
(* aof.Persister: the database index across a rewrite *)

\* what replaying a file executes, command by command, on a fresh database
ReplayOf(bytes) == LoadTrace(NewFakeConn, ParseStream(bytes, 1), 1)

\* the last n elements of s
LastOf(s, n) == SubSeq(s, Len(s) - n + 1, Len(s))

\* the commands other than SELECT in a piece of the file
DataCmds(bytes) == SelectSeq(ParseStream(bytes, 1), LAMBDA args : ~IsSelect(args))

\* the step is FinishRewrite
FinishStep == rwPc = "rewritten" /\ rwPc' = "finished"

\* the step is a writeAof after FinishRewrite
LaterWriteStep == rwPc = "finished" /\ logged' # logged

\* C30: after FinishRewrite, replaying the new file applies every command of
\* the copied tail to the database under which it was logged, the tail being
\* preceded by a SELECT of the currentDB that StartRewrite captured and
\* followed by a SELECT of the persister's currentDB; and every command
\* appended afterwards is applied to its own dbIndex
C30_RewriteKeepsDbIndex ==
  /\ [][FinishStep =>
          LET tail == SubSeq(aofFile, rwCtx.fileSize + 1, Len(aofFile))
              n    == Len(DataCmds(tail))
          IN  /\ n <= Len(logged)
              /\ LastOf(ReplayOf(aofFile'), n) = LastOf(logged, n)
              /\ aofFile' = rwCtx.tmpFile \o ToBytes(SelectCmd(rwCtx.dbIdx)) \o tail
                              \o ToBytes(SelectCmd(currentDB))]_vars
  /\ [][LaterWriteStep =>
          LET replayed == ReplayOf(aofFile')
          IN  /\ replayed # <<>>
              /\ replayed[Len(replayed)] = logged'[Len(logged')]]_vars

\* a rewrite started with database 1 current; a command for database 1 was
\* logged while it ran and is the copied tail, and a command was appended
\* after FinishRewrite
C30_Witness ==
  /\ rwPc = "finished"
  /\ rwCtx.dbIdx # 0
  /\ Len(logged) = MaxCmds
  /\ logged[Len(logged) - 1].dbIndex = rwCtx.dbIdx
  /\ Len(aofFile) > Len(rwCtx.tmpFile) + Len(ToBytes(SelectCmd(currentDB)))
  /\ LET cmds == ParseStream(rwCtx.tmpFile, 1)
     IN  /\ Len(cmds) >= 2
         /\ cmds[Len(cmds)] = logged[Len(logged) - 1].cmdLine
         /\ cmds[Len(cmds) - 1] = SelectCmd(rwCtx.dbIdx)

-----------------------------------------------------------------------------
(* aof.Persister: writeAof, step by step, and the listeners *)

\* the listeners registered, beside the one a replication hand-off adds
Listeners == {"l1", "l2"}

\* the listener that GenerateRDBForReplication registers
NewListener == "replica"

\* the goroutine of listenCmd; the others that run writeAof are the clients
ListenCmd == CHOOSE g \in {0} : TRUE

Writers == Clients \cup {ListenCmd}

\* the payload SaveCmdLine makes of the n-th command
FanPayload(n, dbIndex) == [cmdLine |-> <<"SET", "k", Itoa(n)>>, dbIndex |-> dbIndex]

NoPayload == [cmdLine |-> <<>>, dbIndex |-> 0]

\* a persister with its listeners, an empty file and nobody in writeAof
FanInit ==
  \E policy \in {"always", "everysec"} :
    fan = [policy |-> policy,
           pc |-> [g \in Writers |-> "idle"],
           payload |-> [g \in Writers |-> NoPayload],
           mine |-> [g \in Writers |-> <<>>],
           chan |-> <<>>,
           holder |-> -1,
           buffer |-> <<>>,
           currentDB |-> 0,
           file |-> <<>>,
           listeners |-> Listeners,
           issued |-> 0,
           written |-> <<>>,
           calls |-> [l \in Listeners \cup {NewListener} |-> <<>>],
           rdb |-> "idle",
           fileSize |-> 0,
           writtenBefore |-> 0,
           resets |-> 0]

\* SaveCmdLine(dbIndex, cmdLine) under always: the caller enters writeAof
FanSaveAlways(c, dbIndex) ==
  /\ fan.policy = "always"
  /\ fan.pc[c] = "idle"
  /\ fan.issued < MaxCmds
  /\ fan' = [fan EXCEPT !.pc[c] = "enter", !.issued = @ + 1,
                        !.payload[c] = FanPayload(fan.issued + 1, dbIndex)]

\* SaveCmdLine(dbIndex, cmdLine) under the other policies: the payload goes
\* to aofChan
FanSaveSend(c, dbIndex) ==
  /\ fan.policy # "always"
  /\ fan.issued < MaxCmds
  /\ fan' = [fan EXCEPT !.issued = @ + 1,
                        !.chan = ChanSend(@, FanPayload(fan.issued + 1, dbIndex))]

\* listenCmd takes the oldest payload of aofChan and enters writeAof
FanListenRecv ==
  /\ fan.pc[ListenCmd] = "idle"
  /\ fan.chan # <<>>
  /\ fan' = [fan EXCEPT !.pc[ListenCmd] = "enter", !.chan = Tail(@),
                        !.payload[ListenCmd] = Head(fan.chan)]

\* writeAof: persister.buffer = persister.buffer[:0], its first statement,
\* before pausingAof.Lock()
FanReset(g) ==
  /\ fan.pc[g] = "enter"
  /\ fan' = [fan EXCEPT !.pc[g] = "lock", !.buffer = <<>>,
                        !.resets = IF fan.holder # -1 \/ fan.buffer # <<>>
                                   THEN @ + 1 ELSE @]

\* writeAof: persister.pausingAof.Lock()
FanLock(g) ==
  /\ fan.pc[g] = "lock"
  /\ fan.holder = -1
  /\ fan' = [fan EXCEPT !.pc[g] = "select", !.holder = g, !.mine[g] = <<>>]

\* writeAof: the SELECT, when the payload's database is not currentDB
FanSelect(g) ==
  /\ fan.pc[g] = "select"
  /\ LET p == fan.payload[g] IN
     IF p.dbIndex # fan.currentDB
     THEN fan' = [fan EXCEPT !.pc[g] = "cmd",
                             !.buffer = Append(@, SelectCmd(p.dbIndex)),
                             !.file = @ \o ToBytes(SelectCmd(p.dbIndex)),
                             !.mine[g] = Append(@, SelectCmd(p.dbIndex)),
                             !.currentDB = p.dbIndex]
     ELSE fan' = [fan EXCEPT !.pc[g] = "cmd"]

\* writeAof: the command is appended to the buffer and written to the file
FanCmd(g) ==
  /\ fan.pc[g] = "cmd"
  /\ LET p == fan.payload[g] IN
     fan' = [fan EXCEPT !.pc[g] = "notify",
                        !.buffer = Append(@, p.cmdLine),
                        !.file = @ \o ToBytes(p.cmdLine),
                        !.mine[g] = Append(@, p.cmdLine)]

\* writeAof: listener.Callback(persister.buffer) for every listener, the
\* Sync and the deferred Unlock
FanNotify(g) ==
  /\ fan.pc[g] = "notify"
  /\ fan' = [fan EXCEPT
       !.pc[g] = "idle", !.holder = -1,
       !.written = Append(@, fan.mine[g]),
       !.calls = [l \in DOMAIN @ |->
                    IF l \in fan.listeners THEN Append(@[l], fan.buffer) ELSE @[l]]]

\* every listener registered from the start has received one call per
\* payload written, with the commands of that payload, in the order of the
\* file
FannedOut == \A l \in Listeners : fan.calls[l] = fan.written

\* C31: for every payload that writeAof wrote, the Callback of each
\* registered listener is invoked once with exactly that payload's commands
\* (the SELECT when one was emitted, then the command), in the order the
\* payloads went to the file, also when several goroutines call SaveCmdLine
\* under the always policy
C31_ListenerFanOut == FannedOut

\* the same with writeAof run by listenCmd alone (the policies other than
\* always)
C31_SingleWriter == fan.policy # "always" => FannedOut

\* listenCmd has written payloads for two databases
C31_SingleWriterWitness ==
  /\ fan.policy # "always"
  /\ Len(fan.written) = MaxCmds
  /\ \E i \in 1..Len(fan.written) : Len(fan.written[i]) = 2
  /\ \E i \in 1..Len(fan.written) : Len(fan.written[i]) = 1

-----------------------------------------------------------------------------
(* list.QuickList: what the removals by value remove *)

\* a removal by value on the QuickList alone, with its arguments and what
\* it returned; a panic leaves the list as it was
PagesRemoveCall(op, expected, count, r) ==
  /\ quickList' = After(quickList, r, "ql")
  /\ listRet' = [op |-> op, oob |-> FALSE, was |-> QuickList_ForEach(quickList),
                 removed |-> IF r.panic THEN 0 ELSE r.removed,
                 expected |-> expected, count |-> count, panic |-> r.panic]
  /\ UNCHANGED linkedList

\* s without its first c elements equal to val
RECURSIVE WithoutFirst(_, _, _)
WithoutFirst(s, val, c) ==
  IF s = <<>> \/ c = 0 THEN s
  ELSE IF Head(s) = val THEN WithoutFirst(Tail(s), val, c - 1)
  ELSE <<Head(s)>> \o WithoutFirst(Tail(s), val, c)

\* s back to front
Reversed(s) == [i \in 1..Len(s) |-> s[Len(s) + 1 - i]]

\* what the call should leave of the list it was made on
RemovalLeaves(ret) ==
  CASE ret.op = "RemoveAllByVal" -> WithoutFirst(ret.was, ret.expected, Len(ret.was))
    [] ret.op = "RemoveByVal" -> WithoutFirst(ret.was, ret.expected, ret.count)
    [] ret.op = "ReverseRemoveByVal" ->
         Reversed(WithoutFirst(Reversed(ret.was), ret.expected, ret.count))

\* the last call is a removal by value that the claim covers: RemoveAllByVal,
\* or one of the other two with a count of 1 at least
RemovalCovered ==
  \/ listRet.op = "RemoveAllByVal"
  \/ listRet.op \in {"RemoveByVal", "ReverseRemoveByVal"} /\ listRet.count >= 1

\* the removal returned, left what it should of the list, in order, and
\* reported how many elements it removed
RemovalRight ==
  /\ ~listRet.panic
  /\ QuickList_ForEach(quickList) = RemovalLeaves(listRet)
  /\ listRet.removed = Len(listRet.was) - Len(RemovalLeaves(listRet))

\* C32: RemoveAllByVal(p) removes every element that satisfies p,
\* RemoveByVal(p, c) the first c of them from the head and
\* ReverseRemoveByVal(p, c) the last c from the tail (all when there are
\* fewer), for c >= 1; each returns the number removed and keeps the other
\* elements in order, on every list, the empty one included
C32_RemoveByPredicate == RemovalCovered => RemovalRight

\* the same for calls on a list that is not empty
C32_OnNonEmptyList ==
  (RemovalCovered /\ listRet.was # <<>>) => RemovalRight

\* a removal of one of two matching elements that leaves the other and an
\* element that does not match
C32_NonEmptyWitness ==
  /\ listRet.op = "ReverseRemoveByVal"
  /\ listRet.count = 1
  /\ listRet.removed = 1
  /\ Len(listRet.was) = MaxListLen
  /\ \E i \in 1..Len(listRet.was) : listRet.was[i] # listRet.expected
  /\ listRet.was[1] = listRet.expected
  /\ QuickList_ForEach(quickList)[1] = listRet.expected

-----------------------------------------------------------------------------
(* cluster/core: makeRebalancePlan, the slots of one plan *)

\* the number of slots the tasks of the plan take from node n
RECURSIVE TakenFrom(_, _)
TakenFrom(migratings, n) ==
  IF migratings = <<>> THEN 0
  ELSE (IF Head(migratings).SrcNode = n THEN Len(Head(migratings).Slots) ELSE 0)
         + TakenFrom(Tail(migratings), n)

\* no slot is in the Slots of two tasks of the plan
PlanSlotsDisjoint ==
  \A j, k \in 1..Len(plan.migratings) :
    j # k =>
      \A a \in 1..Len(plan.migratings[j].Slots), b \in 1..Len(plan.migratings[k].Slots) :
        plan.migratings[j].Slots[a] # plan.migratings[k].Slots[b]

\* the tasks take from no node more slots than it owns beyond avgSlot
PlanWithinSurplus ==
  \A n \in 1..Len(planNodes) :
    TakenFrom(plan.migratings, n) > 0 =>
      TakenFrom(plan.migratings, n) <= Len(fsmNode2Slot[n]) - avgSlot(planNodes)

\* C33: within one plan that makeRebalancePlan returns no slot is in the
\* Slots of two tasks, and the slots taken from a source node are no more
\* than its surplus over avgSlot
C33_PlanSlotsOnce ==
  plan.pc = "done" => PlanSlotsDisjoint /\ PlanWithinSurplus

\* the same for the plans with one importing node at most
C33_OneImporter ==
  (plan.pc = "done" /\ Len(plan.importingNodes) <= 1)
    => PlanSlotsDisjoint /\ PlanWithinSurplus

-----------------------------------------------------------------------------
(* aof.Persister: a second Rewrite that overlaps the first *)

\* no second Rewrite yet
OverlapInit == rw2 = [pc |-> "idle", ctx |-> [tmpFile |-> <<>>, fileSize |-> 0, dbIdx |-> 0]]

\* what a Rewrite step leaves alone of the persister
RewriteKeeps ==
  UNCHANGED <<aofFsync, aofChan, chanClosed, currentDB, cpc, cPayload, issued,
              returned, before, logged, wpc, wPayload, closePc, ctxDone, fsyncPc>>

\* the second Rewrite: StartRewrite while the first Rewrite has started and
\* not finished
SecondStartRewrite ==
  /\ rw2.pc = "idle"
  /\ rwPc \in {"started", "rewritten"}
  /\ unsynced' = FALSE
  /\ rw2' = [pc |-> "started",
             ctx |-> [tmpFile |-> <<>>, fileSize |-> Len(aofFile), dbIdx |-> currentDB]]
  /\ UNCHANGED <<aofFile, fileOpen, rwPc, rwCtx>>
  /\ RewriteKeeps

\* the second Rewrite: DoRewrite
SecondDoRewrite ==
  /\ rw2.pc = "started"
  /\ \E out \in generateAof(rw2.ctx.fileSize, aofFile) :
       rw2' = [rw2 EXCEPT !.pc = "rewritten", !.ctx.tmpFile = out]
  /\ UNCHANGED <<aofFile, fileOpen, unsynced, rwPc, rwCtx>>
  /\ RewriteKeeps

\* the second Rewrite: FinishRewrite
SecondFinishRewrite ==
  /\ rw2.pc = "rewritten"
  /\ LET tail == SubSeq(aofFile, rw2.ctx.fileSize + 1, Len(aofFile))
         tmp  == rw2.ctx.tmpFile \o ToBytes(SelectCmd(rw2.ctx.dbIdx)) \o tail
     IN  /\ aofFile' = tmp \o ToBytes(SelectCmd(currentDB))
         /\ rw2' = [rw2 EXCEPT !.pc = "finished", !.ctx.tmpFile = tmp]
  /\ fileOpen' = TRUE
  /\ unsynced' = TRUE
  /\ UNCHANGED <<rwPc, rwCtx>>
  /\ RewriteKeeps

\* both Rewrite calls have returned
BothFinished == rwPc = "finished" /\ rw2.pc = "finished"

\* C34: when two Rewrite calls overlap (the second StartRewrite comes before
\* the first FinishRewrite), with SaveCmdLine calls in between, the file
\* after both FinishRewrite calls replays to the database that applying
\* every logged command once, in order, gives
C34_OverlappingRewrites ==
  BothFinished => LoadAof(aofFile, 0).db = ApplyAll(EmptyDB, logged, 1)

\* the same for two Rewrite calls that both started on a file that was not
\* empty
C34_OnNonEmptyFile ==
  (BothFinished /\ rwCtx.fileSize > 0 /\ rw2.ctx.fileSize > 0)
    => LoadAof(aofFile, 0).db = ApplyAll(EmptyDB, logged, 1)

-----------------------------------------------------------------------------
(* aof.Persister: GenerateRDBForReplication and its listener *)

\* startGenerateRDB(newListener, hook), all of it under pausingAof: Sync,
\* the size of the file, the listener is registered and the hook runs
FanStartGenerateRDB ==
  /\ fan.rdb = "idle"
  /\ fan.holder = -1
  /\ fan' = [fan EXCEPT !.rdb = "started",
                        !.fileSize = Len(fan.file),
                        !.writtenBefore = Len(fan.written),
                        !.listeners = @ \cup {NewListener}]

\* the commands of the calls a listener received, as the bytes they are in
\* the file
RECURSIVE BytesOf(_)
BytesOf(cmds) == IF cmds = <<>> THEN <<>> ELSE ToBytes(Head(cmds)) \o BytesOf(Tail(cmds))

RECURSIVE CallBytes(_)
CallBytes(calls) ==
  IF calls = <<>> THEN <<>> ELSE BytesOf(Head(calls)) \o CallBytes(Tail(calls))

\* the listener of the hand-off has received the payloads written since the
\* capture and nothing else, one call per payload, in order; with nobody
\* inside writeAof what it received is the file from the captured size on
HandedOff ==
  fan.rdb = "started" =>
    /\ fan.calls[NewListener]
         = SubSeq(fan.written, fan.writtenBefore + 1, Len(fan.written))
    /\ fan.holder = -1 =>
         CallBytes(fan.calls[NewListener])
           = SubSeq(fan.file, fan.fileSize + 1, Len(fan.file))

\* C35: the listener registered through GenerateRDBForReplication is
\* delivered, in file order, every command written to the AOF after the
\* file size that startGenerateRDB captured and no command written before it
C35_ReplicationHandOff == HandedOff

\* the same with writeAof run by listenCmd alone (the policies other than
\* always)
C35_SingleWriter == fan.policy # "always" => HandedOff

\* a hand-off between two payloads of listenCmd, the later one with a SELECT
C35_SingleWriterWitness ==
  /\ fan.policy # "always"
  /\ fan.rdb = "started"
  /\ fan.writtenBefore >= 1
  /\ Len(fan.calls[NewListener]) >= 2
  /\ Len(fan.calls[NewListener][1]) = 2

-----------------------------------------------------------------------------
(* aof.Persister: Rewrite when writes to the temp file fail *)

\* what a key of the loaded database holds: nothing, a string, or a string
\* with an expiration
GenEntities == {"none", "string", "expiring"}

\* MakeExpireCmd(key, expiration)
MakeExpireCmd(key) == <<"PEXPIREAT", key, "1">>

\* tmpFile.Write(data): the file afterwards; a failed write adds nothing
TmpWrite(tmpFile, cmdLine, ok) == IF ok THEN tmpFile \o ToBytes(cmdLine) ELSE tmpFile

\* a persister whose file loads to the database db, before Rewrite is called
GenInit ==
  \E db \in [DBs -> [AofKeys -> GenEntities]] :
    gen = [pc |-> "idle", db |-> db, i |-> 0, todo |-> {}, tmpFile |-> <<>>,
           result |-> "none", replaced |-> FALSE,
           failedSelect |-> FALSE, failedCmd |-> FALSE, failedExpire |-> FALSE]

\* Rewrite: StartRewrite, and generateAof up to its loop (the handler has
\* loaded the file)
GenStart ==
  /\ gen.pc = "idle"
  /\ gen' = [gen EXCEPT !.pc = "select"]

\* generateAof: the SELECT of database i is written; an error of the write
\* is returned, and Rewrite returns it
GenSelect(ok) ==
  /\ gen.pc = "select"
  /\ gen.i < NumDatabases
  /\ IF ok
     THEN gen' = [gen EXCEPT
            !.pc = "keys",
            !.tmpFile = TmpWrite(@, SelectCmd(gen.i), TRUE),
            !.todo = {key \in AofKeys : gen.db[gen.i][key] # "none"}]
     ELSE gen' = [gen EXCEPT !.pc = "returned", !.result = "error",
                             !.failedSelect = TRUE]

\* generateAof, the callback of ForEach: whether a failed write of the
\* key's command or of its PEXPIREAT ends the rewrite (the results of both
\* writes are assigned to _)
GenKeyError(okCmd, okExpire) == FALSE

\* generateAof, the callback of ForEach for one key: its command and, when
\* it expires, its PEXPIREAT
GenKey(key, okCmd, okExpire) ==
  /\ gen.pc = "keys"
  /\ key \in gen.todo
  /\ LET expiring == gen.db[gen.i][key] = "expiring"
         written  == TmpWrite(gen.tmpFile, <<"SET", key, "1">>, okCmd)
         failed   == GenKeyError(okCmd, okExpire \/ ~expiring)
     IN  gen' = [gen EXCEPT
           !.pc = IF failed THEN "returned" ELSE @,
           !.result = IF failed THEN "error" ELSE @,
           !.todo = @ \ {key},
           !.tmpFile = IF expiring THEN TmpWrite(written, MakeExpireCmd(key), okExpire)
                       ELSE written,
           !.failedCmd = @ \/ ~okCmd,
           !.failedExpire = @ \/ (expiring /\ ~okExpire)]

\* generateAof: ForEach of database i is over
GenNextDb ==
  /\ gen.pc = "keys"
  /\ gen.todo = {}
  /\ gen' = [gen EXCEPT !.pc = "select", !.i = @ + 1]

\* generateAof returns nil; Rewrite runs FinishRewrite, which puts the temp
\* file in the place of the AOF file, and returns nil
GenFinish ==
  /\ gen.pc = "select"
  /\ gen.i >= NumDatabases
  /\ gen' = [gen EXCEPT !.pc = "returned", !.result = "nil", !.replaced = TRUE]

\* what generateAof writes for the loaded database when no write fails
RECURSIVE GenComplete(_, _)
GenComplete(db, i) ==
  IF i >= NumDatabases THEN <<>>
  ELSE ToBytes(SelectCmd(i))
         \o (IF db[i]["k"] = "none" THEN <<>> ELSE ToBytes(<<"SET", "k", "1">>))
         \o (IF db[i]["k"] = "expiring" THEN ToBytes(MakeExpireCmd("k")) ELSE <<>>)
         \o GenComplete(db, i + 1)

\* C36: when a write to the temp file fails during DoRewrite (a SELECT, the
\* command of a key or its PEXPIREAT), Rewrite returns an error and
\* FinishRewrite does not run: the AOF file is never replaced by an
\* incomplete rewrite
C36_FailedRewriteKeepsLog ==
  /\ (gen.failedSelect \/ gen.failedCmd \/ gen.failedExpire) => ~gen.replaced
  /\ (gen.pc = "returned" /\ (gen.failedSelect \/ gen.failedCmd \/ gen.failedExpire))
       => gen.result = "error"
  /\ gen.replaced => gen.tmpFile = GenComplete(gen.db, 0)

\* the part of C36 about the SELECT: a failed write of a SELECT makes Rewrite
\* return an error with the AOF file in place
C36_FailedSelect ==
  gen.failedSelect => gen.pc = "returned" /\ gen.result = "error" /\ ~gen.replaced

\* the SELECT of the second database failed after a key of the first was
\* written
C36_FailedSelectWitness ==
  /\ gen.failedSelect
  /\ gen.i = 1
  /\ ~gen.failedCmd
  /\ Len(gen.tmpFile) > Len(ToBytes(SelectCmd(0)))

-----------------------------------------------------------------------------
(* cluster/core: triggerMigrationTask *)

\* the tasks of the plan doRebalance goes through
NumTasks == 3

PendingTasks == 1..NumTasks

\* what the target node does with startMigrationCommand and what comes back:
\* it starts the migration and replies OK, it refuses with an error reply,
\* or the command does not reach it
SendOutcomes == {"ok", "refused", "unreached"}

\* a task nothing has been done with
UntouchedTask == [proposed |-> FALSE, started |-> FALSE, reply |-> "none", result |-> "none"]

\* doRebalance has a plan of NumTasks tasks and enters its loop
MigrateInit ==
  migrate = [task |-> 1, pc |-> "propose", tasks |-> [t \in PendingTasks |-> UntouchedTask]]

\* the loop of doRebalance goes to the next task, whatever
\* triggerMigrationTask returned
NextTask(m, result) ==
  [m EXCEPT !.tasks[m.task].result = result, !.task = @ + 1, !.pc = "propose"]

\* triggerMigrationTask: raftNode.Propose of EventStartMigrate; on an error
\* it returns the error, else the task is in the replicated log
TriggerPropose(ok) ==
  /\ migrate.task \in PendingTasks
  /\ migrate.pc = "propose"
  /\ migrate' = IF ok
                THEN [migrate EXCEPT !.tasks[migrate.task].proposed = TRUE, !.pc = "borrow"]
                ELSE NextTask(migrate, "error")

\* triggerMigrationTask: BorrowPeerClient(task.TargetNode); on an error it
\* returns the error
TriggerBorrow(ok) ==
  /\ migrate.task \in PendingTasks
  /\ migrate.pc = "borrow"
  /\ migrate' = IF ok THEN [migrate EXCEPT !.pc = "send"]
                ELSE NextTask(migrate, "error")

\* a triggerMigrationTask that returns nil whatever the reply
IsOKReply_any(outcome) == TRUE

\* protocol.IsOKReply(reply)
IsOKReply(outcome) == outcome = "ok"

\* triggerMigrationTask: targetNodeConn.Send(cmdLine) and the return
TriggerSend(outcome) ==
  /\ migrate.task \in PendingTasks
  /\ migrate.pc = "send"
  /\ migrate' = NextTask([migrate EXCEPT
                            !.tasks[migrate.task].started = (outcome = "ok"),
                            !.tasks[migrate.task].reply = outcome],
                         IF IsOKReply(outcome) THEN "nil" ELSE "error")

\* triggerMigrationTask returned nil only after a successful proposal and
\* an OK reply of the target
NilOnlyAfterOk ==
  \A t \in PendingTasks :
    migrate.tasks[t].result = "nil" =>
      migrate.tasks[t].proposed /\ migrate.tasks[t].reply = "ok"

\* a task whose triggerMigrationTask returned an error is not in the log as
\* a started migration that the target has not accepted
NoHalfStarted ==
  \A t \in PendingTasks :
    migrate.tasks[t].result = "error" =>
      ~migrate.tasks[t].proposed \/ migrate.tasks[t].started

\* C37: triggerMigrationTask returns nil only if EventStartMigrate was
\* proposed and the target then replied OK to startMigration; and when it
\* returns an error the task is not left in the replicated log as a started
\* migration that the target has not accepted
C37_MigrationStartAllOrNothing == NilOnlyAfterOk /\ NoHalfStarted

\* the first half of C37 alone
C37_NilOnlyAfterOk == NilOnlyAfterOk

\* doRebalance has gone through its tasks: one started, one whose proposal
\* failed, one that the target refused
C37_NilOnlyAfterOkWitness ==
  /\ migrate.task > NumTasks
  /\ \E t \in PendingTasks : migrate.tasks[t].result = "nil"
  /\ \E t \in PendingTasks : ~migrate.tasks[t].proposed
  /\ \E t \in PendingTasks : migrate.tasks[t].reply = "refused"

-----------------------------------------------------------------------------
(* dict.ConcurrentDict: Clear                                               *)

\* calls of Clear
MaxClears == 1

\* the tables there have been: the one of MakeConcurrent and one per Clear
Tables == 0..MaxClears

\* the keys and the mutators that run beside Clear
ClearKeys == {<<97>>, <<98>>}

ClearOps == {"Put", "PutIfAbsent", "Remove"}

\* the fields that '*dict = *MakeConcurrent(dict.shardCount)' stores one
\* after the other, with no lock held
ClearFields == {"table", "count"}

\* a goroutine outside a call
ClearIdle == [pc |-> "idle", op |-> "none", key |-> <<>>, shard |-> <<0, 0>>, add |-> 0, calls |-> 0]

\* a dict of MakeConcurrent, goroutines about to call its mutators and one
\* about to call Clear
ClearInit ==
  clr = [shards |-> [s \in Tables \X (0..(tableSize - 1)) |-> [m |-> <<>>, w |-> 0]],
         table |-> 0, count |-> 0,
         procs |-> [g \in DictProcs |-> ClearIdle],
         clear |-> [pc |-> "idle", todo |-> {}, calls |-> 0, alone |-> TRUE],
         landed |-> {}]

\* the goroutines inside a mutator
ClearInCall == {h \in DictProcs : clr.procs[h].pc # "idle"}

\* goroutine g calls a mutator: index := dict.spread(key) and
\* s := dict.getShard(index), which reads dict.table
ClearMutatorCall(g, op, key) ==
  /\ clr.procs[g].pc = "idle"
  /\ clr.procs[g].calls < MaxDictCalls
  /\ clr' = [clr EXCEPT
       !.procs[g] = [pc |-> "lock", op |-> op, key |-> key,
                     shard |-> <<clr.table, Dict_spread(key)>>, add |-> 0,
                     calls |-> clr.procs[g].calls + 1],
       !.clear.alone = @ /\ clr.clear.pc # "store",
       !.landed = IF op = "Remove" THEN @ \ {key} ELSE @]

\* s.mutex.Lock(), on the shard that getShard returned
ClearMutatorLock(g) ==
  LET p == clr.procs[g]
  IN  /\ p.pc = "lock"
      /\ clr.shards[p.shard].w = 0
      /\ clr' = [clr EXCEPT !.shards[p.shard].w = g, !.procs[g].pc = "body"]

\* the test of s.m[key] and the change of the map
ClearMutatorBody(g) ==
  LET p    == clr.procs[g]
      done == ConcurrentDict_Body(p.op, clr.shards[p.shard].m, p.key, 1)
  IN  /\ p.pc = "body"
      /\ clr' = [clr EXCEPT !.shards[p.shard].m = done.m,
                            !.procs[g].add = done.add,
                            !.procs[g].pc = IF done.add = 0 THEN "unlock" ELSE "count"]

\* dict.addCount() / dict.decreaseCount(): atomic.AddInt32(&dict.count, ..)
ClearMutatorCount(g) ==
  /\ clr.procs[g].pc = "count"
  /\ clr' = [clr EXCEPT !.count = @ + clr.procs[g].add, !.procs[g].pc = "unlock"]

\* the deferred s.mutex.Unlock(), and the call returns
ClearMutatorUnlock(g) ==
  LET p == clr.procs[g]
  IN  /\ p.pc = "unlock"
      /\ clr' = [clr EXCEPT
           !.shards[p.shard].w = 0,
           !.procs[g].pc = "idle",
           !.landed = IF /\ p.op = "Put"
                         /\ clr.clear.pc = "done"
                         /\ \A h \in ClearInCall \ {g} :
                              ~(clr.procs[h].op = "Remove" /\ clr.procs[h].key = p.key)
                      THEN @ \cup {p.key} ELSE @]

\* Clear is called: MakeConcurrent(dict.shardCount) has built the new table
ClearCall ==
  /\ clr.clear.pc = "idle"
  /\ clr.clear.calls < MaxClears
  /\ clr' = [clr EXCEPT !.clear = [pc |-> "store", todo |-> ClearFields,
                                   calls |-> @.calls + 1,
                                   alone |-> ClearInCall = {}]]

\* '*dict = ...' stores one field of the new dict: the table or the count
ClearStore(field) ==
  /\ clr.clear.pc = "store"
  /\ field \in clr.clear.todo
  /\ clr' = [clr EXCEPT
       !.table = IF field = "table" THEN clr.clear.calls ELSE @,
       !.count = IF field = "count" THEN 0 ELSE @,
       !.clear.todo = @ \ {field}]

\* Clear returns
ClearReturn ==
  /\ clr.clear.pc = "store"
  /\ clr.clear.todo = {}
  /\ clr' = [clr EXCEPT !.clear.pc = "done"]

\* the keys stored in the shards of dict.table
ClearStored ==
  UNION {DOMAIN clr.shards[<<clr.table, i>>].m : i \in 0..(tableSize - 1)}

\* every call has returned and Clear has been called
ClearAllReturned == ClearInCall = {} /\ clr.clear.pc = "done"

\* Len() is the number of keys stored, it is not negative, and the keys
\* that a Put stored after Clear returned are there
ClearConsistent ==
  /\ clr.count = Cardinality(ClearStored)
  /\ clr.count >= 0
  /\ clr.landed \subseteq ClearStored

\* C38: after any interleaving of Clear with concurrent Put, PutIfAbsent and
\* Remove calls, once all calls have returned Len() equals the number of
\* keys stored in the shards, the counter is not negative, and every key
\* whose Put returned after Clear returned can be read with Get
C38_ClearAmongWriters == ClearAllReturned => ClearConsistent

\* C38 for a Clear that ran while no goroutine was inside a mutator
C38_ClearAlone == (ClearAllReturned /\ clr.clear.alone) => ClearConsistent

\* Clear ran alone between mutators, and a key was put after it
C38_ClearAloneWitness ==
  /\ ClearAllReturned
  /\ clr.clear.alone
  /\ clr.landed # {}
  /\ \E s \in DOMAIN clr.shards : s[1] = 0 /\ clr.shards[s].m # <<>>

-----------------------------------------------------------------------------
(* cluster/core: slotsManager.getSlot                                       *)

\* goroutines calling getSlot, and the calls each makes
NumGetters == 3

MaxGetCalls == 2

Getters == 1..NumGetters

\* the slot indices asked for
GetIndices == {0, 1}

\* slotStatus objects are numbered as they are created; NoSlot is nil
NoSlot == CHOOSE s \in {0} : TRUE

\* &slotStatus{state: slotStateHosting, keys: set.Make(), mu: ..}
NewSlotStatus(i) == [index |-> i, state |-> "hosting", keys |-> {}]

\* newSlotsManager, and goroutines that have not called getSlot
SlotsInit ==
  ssm = [slots |-> [i \in GetIndices |-> NoSlot],
         mu |-> [w |-> 0, r |-> {}],
         objects |-> <<>>,
         procs |-> [g \in Getters |->
                      [pc |-> "idle", index |-> 0, slot |-> NoSlot, result |-> NoSlot,
                       calls |-> 0, missed |-> FALSE]],
         results |-> {}]

\* goroutine g calls getSlot(i)
GetSlotCall(g, i) ==
  /\ ssm.procs[g].pc = "idle"
  /\ ssm.procs[g].calls < MaxGetCalls
  /\ ssm' = [ssm EXCEPT !.procs[g] = [pc |-> "rlock", index |-> i, slot |-> NoSlot,
                                      result |-> NoSlot, calls |-> @.calls + 1,
                                      missed |-> FALSE]]

\* ssm.mu.RLock()
GetSlotRLock(g) ==
  /\ ssm.procs[g].pc = "rlock"
  /\ ssm.mu.w = 0
  /\ ssm' = [ssm EXCEPT !.mu.r = @ \cup {g}, !.procs[g].pc = "read"]

\* slot := ssm.slots[index]
GetSlotRead(g) ==
  /\ ssm.procs[g].pc = "read"
  /\ ssm' = [ssm EXCEPT !.procs[g].slot = ssm.slots[ssm.procs[g].index],
                        !.procs[g].pc = "runlock"]

\* the return of getSlot: the result, and the call is over
GetSlotReturned(m, g, slot) ==
  [m EXCEPT !.procs[g].pc = "idle", !.procs[g].result = slot,
            !.results = @ \cup {<<m.procs[g].index, slot>>}]

\* ssm.mu.RUnlock(); if slot != nil { return slot }
GetSlotRUnlock(g) ==
  LET p == ssm.procs[g]
      m == [ssm EXCEPT !.mu.r = @ \ {g}]
  IN  /\ p.pc = "runlock"
      /\ ssm' = IF p.slot # NoSlot
                THEN GetSlotReturned(m, g, p.slot)
                ELSE [m EXCEPT !.procs[g].pc = "lock", !.procs[g].missed = TRUE]

\* ssm.mu.Lock()
GetSlotLock(g) ==
  /\ ssm.procs[g].pc = "lock"
  /\ ssm.mu.w = 0
  /\ ssm.mu.r = {}
  /\ ssm' = [ssm EXCEPT !.mu.w = g, !.procs[g].pc = "check"]

\* a getSlot whose second look at the map is left out
getSlot_recheck_none(slots, i) == NoSlot

\* check-lock-check: slot = ssm.slots[index], now under the write lock
getSlot_recheck(slots, i) == slots[i]

\* the second check; a slot found is returned, with the deferred Unlock
GetSlotCheck(g) ==
  LET p    == ssm.procs[g]
      slot == getSlot_recheck(ssm.slots, p.index)
  IN  /\ p.pc = "check"
      /\ ssm' = IF slot # NoSlot
                THEN GetSlotReturned([ssm EXCEPT !.mu.w = 0], g, slot)
                ELSE [ssm EXCEPT !.procs[g].pc = "create"]

\* slot = &slotStatus{..}; ssm.slots[index] = slot; return slot, with the
\* deferred Unlock
GetSlotCreate(g) ==
  LET p    == ssm.procs[g]
      slot == Len(ssm.objects) + 1
  IN  /\ p.pc = "create"
      /\ ssm' = GetSlotReturned([ssm EXCEPT !.objects = Append(@, NewSlotStatus(p.index)),
                                            !.slots[p.index] = slot,
                                            !.mu.w = 0],
                                g, slot)

\* the slotStatus objects created for index i
CreatedFor(i) == {s \in DOMAIN ssm.objects : ssm.objects[s].index = i}

\* one slotStatus at most per index, exactly one once a call for the index
\* has returned, and every call for the index returned that object
OneSlotStatus ==
  \A i \in GetIndices :
    /\ Cardinality(CreatedFor(i)) <= 1
    /\ \A r \in ssm.results :
         r[1] = i => CreatedFor(i) = {r[2]} /\ ssm.slots[i] = r[2]

\* every slotStatus is in state hosting with an empty key set
StartsHosting ==
  \A s \in DOMAIN ssm.objects :
    ssm.objects[s].state = "hosting" /\ ssm.objects[s].keys = {}

\* a goroutine outside getSlot holds the manager's lock in no mode
ReturnsUnlocked ==
  \A g \in Getters :
    ssm.procs[g].pc = "idle" => ssm.mu.w # g /\ g \notin ssm.mu.r

\* C39: for any interleaving of concurrent getSlot(i) calls exactly one
\* slotStatus is created per slot index and every call for the same index
\* returns that same object, which starts in state hosting with an empty
\* key set; the manager's lock is not held when getSlot returns
C39_SlotCreatedOnce == OneSlotStatus /\ StartsHosting /\ ReturnsUnlocked

\* two goroutines found the slot missing under the read lock, both went for
\* the write lock, and both have returned
C39_Witness ==
  \E g, h \in Getters :
    /\ g # h
    /\ ssm.procs[g].index = ssm.procs[h].index
    /\ ssm.procs[g].missed /\ ssm.procs[h].missed
    /\ ssm.procs[g].pc = "idle" /\ ssm.procs[h].pc = "idle"
    /\ ssm.procs[g].result # NoSlot
    /\ ssm.procs[g].result = ssm.procs[h].result

-----------------------------------------------------------------------------
(* tcp: EchoHandler                                                         *)

\* connections passed to Handle, each by a goroutine of its own
NumEchoConns == 3

\* lines a client sends before it goes away
MaxEchoLines == 1

EchoConns == 1..NumEchoConns

\* a connection that Handle has not been called with
EchoNew == [pc |-> "new", open |-> TRUE, closedBy |-> "none", echoed |-> 0, raced |-> FALSE, eof |-> FALSE, late |-> FALSE]

\* a new EchoHandler: closing false, activeConn empty
EchoInit ==
  echo = [closing |-> FALSE, activeConn |-> {},
          conns |-> [c \in EchoConns |-> EchoNew],
          close |-> [pc |-> "idle", start |-> {}, visited |-> {}]]

\* Handle(ctx, conn): if h.closing.Get() { _ = conn.Close(); return }
EchoHandleCheck(c) ==
  /\ echo.conns[c].pc = "new"
  /\ echo' = IF echo.closing
             THEN [echo EXCEPT !.conns[c].pc = "rejected", !.conns[c].open = FALSE,
                               !.conns[c].closedBy = "Handle"]
             ELSE [echo EXCEPT !.conns[c].pc = "store"]

\* h.activeConn.Store(client, struct{}{})
EchoStore(activeConn, c) == activeConn \cup {c}

\* Handle: the client is created and stored in activeConn
EchoHandleStore(c) ==
  /\ echo.conns[c].pc = "store"
  /\ echo' = [echo EXCEPT !.activeConn = EchoStore(@, c),
                          !.conns[c].pc = "read",
                          !.conns[c].late = (echo.close.pc = "done")]

\* Handle: reader.ReadString returned a line, which is written back
EchoHandleLine(c) ==
  /\ echo.conns[c].pc = "read"
  /\ echo.conns[c].open
  /\ echo.conns[c].echoed < MaxEchoLines
  /\ echo' = [echo EXCEPT !.conns[c].echoed = @ + 1]

\* Handle: reader.ReadString returned an error (the client went away, or
\* the connection has been closed): h.activeConn.Delete(client); return
EchoHandleError(c) ==
  /\ echo.conns[c].pc = "read"
  /\ echo' = [echo EXCEPT !.activeConn = @ \ {c},
                          !.conns[c].pc = "returned",
                          !.conns[c].eof = echo.conns[c].open]

\* Close: h.closing.Set(true)
EchoCloseSet ==
  /\ echo.close.pc = "idle"
  /\ echo' = [echo EXCEPT
       !.closing = TRUE,
       !.close.pc = "range",
       !.close.start = echo.activeConn,
       !.conns = [c \in EchoConns |-> [echo.conns[c] EXCEPT !.raced = (echo.conns[c].pc = "store")]]]

\* Close: the callback of h.activeConn.Range for one client: client.Close()
EchoCloseVisit(c) ==
  /\ echo.close.pc = "range"
  /\ c \in echo.activeConn \ echo.close.visited
  /\ echo' = [echo EXCEPT
       !.close.visited = @ \cup {c},
       !.conns[c].open = FALSE,
       !.conns[c].closedBy = IF echo.conns[c].open THEN "Close" ELSE @]

\* Close: Range is over and Close returns. Range visits the keys that were
\* there when it began and are still there; a key stored meanwhile may be
\* missed
EchoCloseReturn ==
  /\ echo.close.pc = "range"
  /\ (echo.close.start \cap echo.activeConn) \subseteq echo.close.visited
  /\ echo' = [echo EXCEPT !.close.pc = "done"]

\* the connections Handle was called with
EchoHandled == {c \in EchoConns : echo.conns[c].pc # "new"}

\* connection c is closed, by Close or by the Handle that saw the flag
EchoClosed(c) ==
  /\ ~echo.conns[c].open
  /\ echo.conns[c].closedBy \in {"Close", "Handle"}

\* C40: for any interleaving of Handle and Close, once Close has returned
\* no connection passed to Handle remains open: each is closed by Close or
\* by Handle itself because it saw the closing flag; and no client is added
\* to activeConn after Close has finished iterating
C40_EchoShutdown ==
  echo.close.pc = "done" =>
    /\ \A c \in EchoHandled : EchoClosed(c)
    /\ \A c \in EchoConns : ~echo.conns[c].late

\* C40 for the connections whose read never failed while they were open
C40_WithoutReadErrors ==
  echo.close.pc = "done" =>
    /\ \A c \in EchoHandled : ~echo.conns[c].eof => EchoClosed(c)
    /\ \A c \in EchoConns : ~echo.conns[c].late

\* C40 for the connections whose Handle was not between its check of the
\* flag and its Store when Close set the flag, and whose read did not fail
\* while they were open
C40_OutsideTheWindow ==
  echo.close.pc = "done" =>
    \A c \in EchoHandled :
      (~echo.conns[c].raced /\ ~echo.conns[c].eof) =>
        EchoClosed(c) /\ ~echo.conns[c].late

\* Close has returned having closed a registered connection, and a Handle
\* called afterwards closed its connection itself
C40_OutsideTheWindowWitness ==
  /\ echo.close.pc = "done"
  /\ \E c \in EchoHandled : echo.conns[c].closedBy = "Close" /\ echo.conns[c].echoed > 0
  /\ \E c \in EchoHandled : echo.conns[c].closedBy = "Handle"
  /\ \A c \in EchoHandled : ~echo.conns[c].raced /\ ~echo.conns[c].eof

-----------------------------------------------------------------------------
(* The specifications: one per subsystem; the variables of the subsystems   *)
(* that take no part keep a fixed value                                      *)

LockUnused ==
  /\ impl = "none"
  /\ table = <<>>
  /\ gpc = <<>>
  /\ gW = <<>>
  /\ gR = <<>>
  /\ gTodo = <<>>
  /\ gAcq = <<>>
  /\ gRel = <<>>
  /\ fatal = FALSE

AofUnused ==
  /\ aofFsync = "none"
  /\ aofFile = <<>>
  /\ fileOpen = FALSE
  /\ unsynced = FALSE
  /\ aofChan = <<>>
  /\ chanClosed = FALSE
  /\ currentDB = 0
  /\ cpc = <<>>
  /\ cPayload = <<>>
  /\ issued = 0
  /\ returned = {}
  /\ before = <<>>
  /\ logged = <<>>
  /\ wpc = "none"
  /\ wPayload = <<>>
  /\ closePc = "none"
  /\ ctxDone = FALSE
  /\ fsyncPc = "none"
  /\ rwPc = "none"
  /\ rwCtx = <<>>

ZsetUnused ==
  /\ zsetDict = <<>>
  /\ heap = <<>>
  /\ skiplist = <<>>
  /\ zsetRet = <<>>

\* the variables of the other subsystems
ListUnused ==
  /\ quickList = <<>>
  /\ linkedList = <<>>
  /\ listRet = <<>>

PlanUnused ==
  /\ planNodes = <<>>
  /\ fsmNode2Slot = <<>>
  /\ plan = <<>>

RouteUnused ==
  /\ routeKey = <<>>
  /\ routeRet = <<>>

CommitUnused ==
  /\ changeRoute = <<>>
  /\ peerCommitted = <<>>

DictUnused ==
  /\ dictTable = <<>>
  /\ dictCount = <<>>
  /\ dictProc = <<>>
  /\ dictScan = <<>>
  /\ dictRand = <<>>
  /\ simpleDict = <<>>

ServerUnused ==
  /\ server = <<>>

FanUnused ==
  /\ fan = <<>>

OverlapUnused ==
  /\ rw2 = <<>>

GenUnused ==
  /\ gen = <<>>

MigrateUnused ==
  /\ migrate = <<>>

ClearUnused ==
  /\ clr = <<>>

SlotsUnused ==
  /\ ssm = <<>>

EchoUnused ==
  /\ echo = <<>>

notLock == <<aofVars, zsetVars, listVars, routeVars, planVars, commitVars, dictVars, serverVars, fanVars, overlapVars, genVars, migrateVars, clearVars, slotsVars, echoVars>>

notAof == <<lockVars, zsetVars, listVars, routeVars, planVars, commitVars, dictVars, serverVars, fanVars, overlapVars, genVars, migrateVars, clearVars, slotsVars, echoVars>>

notZset == <<lockVars, aofVars, listVars, routeVars, planVars, commitVars, dictVars, serverVars, fanVars, overlapVars, genVars, migrateVars, clearVars, slotsVars, echoVars>>

notList == <<lockVars, aofVars, zsetVars, routeVars, planVars, commitVars, dictVars, serverVars, fanVars, overlapVars, genVars, migrateVars, clearVars, slotsVars, echoVars>>

notRoute == <<lockVars, aofVars, zsetVars, listVars, planVars, commitVars, dictVars, serverVars, fanVars, overlapVars, genVars, migrateVars, clearVars, slotsVars, echoVars>>

notPlan == <<lockVars, aofVars, zsetVars, listVars, routeVars, commitVars, dictVars, serverVars, fanVars, overlapVars, genVars, migrateVars, clearVars, slotsVars, echoVars>>

notCommit == <<lockVars, aofVars, zsetVars, listVars, routeVars, planVars, dictVars, serverVars, fanVars, overlapVars, genVars, migrateVars, clearVars, slotsVars, echoVars>>

notDict == <<lockVars, aofVars, zsetVars, listVars, routeVars, planVars, commitVars, serverVars, fanVars, overlapVars, genVars, migrateVars, clearVars, slotsVars, echoVars>>

notServer == <<lockVars, aofVars, zsetVars, listVars, routeVars, planVars, commitVars, dictVars, fanVars, overlapVars, genVars, migrateVars, clearVars, slotsVars, echoVars>>

notFan == <<lockVars, aofVars, zsetVars, listVars, routeVars, planVars, commitVars, dictVars, serverVars, overlapVars, genVars, migrateVars, clearVars, slotsVars, echoVars>>

notOverlap == <<lockVars, aofVars, zsetVars, listVars, routeVars, planVars, commitVars, dictVars, serverVars, fanVars, genVars, migrateVars, clearVars, slotsVars, echoVars>>

notGen == <<lockVars, aofVars, zsetVars, listVars, routeVars, planVars, commitVars, dictVars, serverVars, fanVars, overlapVars, migrateVars, clearVars, slotsVars, echoVars>>

notMigrate == <<lockVars, aofVars, zsetVars, listVars, routeVars, planVars, commitVars, dictVars, serverVars, fanVars, overlapVars, genVars, clearVars, slotsVars, echoVars>>

notClear == <<lockVars, aofVars, zsetVars, listVars, routeVars, planVars, commitVars, dictVars, serverVars, fanVars, overlapVars, genVars, migrateVars, slotsVars, echoVars>>

notSlots == <<lockVars, aofVars, zsetVars, listVars, routeVars, planVars, commitVars, dictVars, serverVars, fanVars, overlapVars, genVars, migrateVars, clearVars, echoVars>>

notEcho == <<lockVars, aofVars, zsetVars, listVars, routeVars, planVars, commitVars, dictVars, serverVars, fanVars, overlapVars, genVars, migrateVars, clearVars, slotsVars>>

LockNext ==
  \E g \in Goroutines :
    \/ RWLocksCall(g) /\ UNCHANGED notLock
    \/ RLockStep(g) /\ UNCHANGED notLock
    \/ LockAnnounceStep(g) /\ UNCHANGED notLock
    \/ LockEnterStep(g) /\ UNCHANGED notLock
    \/ RWUnLockCall(g) /\ UNCHANGED notLock
    \/ UnlockStep(g) /\ UNCHANGED notLock

\* the lock tables, any interleaving of the goroutines
\* a lock table and nothing else
InitLock == LockInit /\ AofUnused /\ ZsetUnused /\ ListUnused /\ RouteUnused /\ PlanUnused /\ CommitUnused /\ DictUnused /\ ServerUnused /\ FanUnused /\ OverlapUnused /\ GenUnused /\ MigrateUnused /\ ClearUnused /\ SlotsUnused /\ EchoUnused

SpecLock == InitLock /\ [][LockNext]_vars

\* the scheduler runs some goroutine that can take a step; every goroutine of
\* the model makes one call, so none can be overtaken forever
SpecLockFair == SpecLock /\ WF_vars(LockNext)

AofNext ==
  \/ \E c \in Clients : SaveCmdLineCall(c) /\ UNCHANGED notAof
  \/ \E c \in Clients : SaveCmdLineWrite(c) /\ UNCHANGED notAof
  \/ \E c \in Clients : SaveCmdLineSend(c) /\ UNCHANGED notAof
  \/ ListenRecv /\ UNCHANGED notAof
  \/ ListenWrite /\ UNCHANGED notAof
  \/ ListenExit /\ UNCHANGED notAof
  \/ CloseCall /\ UNCHANGED notAof
  \/ CloseReturn /\ UNCHANGED notAof
  \/ FsyncTick /\ UNCHANGED notAof
  \/ FsyncExit /\ UNCHANGED notAof

\* SaveCmdLine, the writer goroutine, the fsync goroutine and Close
\* a persister and nothing else
InitAof == AofInit /\ LockUnused /\ ZsetUnused /\ ListUnused /\ RouteUnused /\ PlanUnused /\ CommitUnused /\ DictUnused /\ ServerUnused /\ FanUnused /\ OverlapUnused /\ GenUnused /\ MigrateUnused /\ ClearUnused /\ SlotsUnused /\ EchoUnused

SpecAof == InitAof /\ [][AofNext]_vars

\* the select of fsyncEverySecond takes the ctx.Done case once it stays ready
SpecAofFair == SpecAof /\ WF_vars(FsyncExit /\ UNCHANGED notAof)

RewriteNext ==
  \/ \E c \in Clients : SaveCmdLineCall(c) /\ UNCHANGED notAof
  \/ \E c \in Clients : SaveCmdLineWrite(c) /\ UNCHANGED notAof
  \/ \E c \in Clients : SaveCmdLineSend(c) /\ UNCHANGED notAof
  \/ ListenRecv /\ UNCHANGED notAof
  \/ ListenWrite /\ UNCHANGED notAof
  \/ StartRewrite /\ UNCHANGED notAof
  \/ DoRewrite /\ UNCHANGED notAof
  \/ FinishRewrite /\ UNCHANGED notAof

\* SaveCmdLine and the writer goroutine with one Rewrite
SpecRewrite == InitAof /\ [][RewriteNext]_vars

ZsetNext ==
  \/ \E member \in Members, score \in Scores, level \in randomLevel :
       Add(member, score, level) /\ UNCHANGED notZset
  \/ \E member \in Members : Remove(member) /\ UNCHANGED notZset

\* a sorted set and nothing else
InitZset == ZsetInit /\ LockUnused /\ AofUnused /\ ListUnused /\ RouteUnused /\ PlanUnused /\ CommitUnused /\ DictUnused /\ ServerUnused /\ FanUnused /\ OverlapUnused /\ GenUnused /\ MigrateUnused /\ ClearUnused /\ SlotsUnused /\ EchoUnused

SpecZset == InitZset /\ [][ZsetNext]_vars

\* calls of Add and Remove and then one call of RemoveByRank with
\* 0 <= start < stop <= Len()
ZsetRankNext ==
  \/ \E member \in Members, score \in Scores, level \in randomLevel :
       /\ zsetRet.op # "RemoveByRank"
       /\ Add(member, score, level)
       /\ UNCHANGED notZset
  \/ \E member \in Members :
       /\ zsetRet.op # "RemoveByRank"
       /\ Remove(member)
       /\ UNCHANGED notZset
  \/ \E start, stop \in 0..Cardinality(Members) :
       /\ zsetRet.op # "RemoveByRank"
       /\ start < stop /\ stop <= skiplist.length
       /\ RemoveByRank(start, stop)
       /\ UNCHANGED notZset

SpecZsetRank == InitZset /\ [][ZsetRankNext]_vars

\* the counts PopMin is called with
PopCounts == 0..Cardinality(Members)

\* calls of Add, Remove, RemoveRange and PopMin in any order
ZsetOpsNext ==
  \/ \E member \in Members, score \in Scores, level \in 1..MaxOpsLevel :
       Add(member, score, level) /\ UNCHANGED notZset
  \/ \E member \in Members : Remove(member) /\ UNCHANGED notZset
  \/ \E min, max \in Borders : ZRemoveRange(min, max) /\ UNCHANGED notZset
  \/ \E count \in PopCounts : PopMin(count) /\ UNCHANGED notZset

SpecZsetOps == InitZset /\ [][ZsetOpsNext]_vars

\* calls with in-range indices, on both lists
ListNext ==
  \/ \E val \in ListVals :
       /\ quickList.size < MaxListLen
       /\ ListAdd(val)
       /\ UNCHANGED notList
  \/ \E index \in 0..quickList.size, val \in ListVals, slack1, slack2 \in Slacks :
       /\ quickList.size < MaxListLen
       /\ ListInsert(index, val, slack1, slack2)
       /\ UNCHANGED notList
  \/ \E index \in 0..(quickList.size - 1), val \in ListVals :
       ListSet(index, val) /\ UNCHANGED notList
  \/ \E index \in 0..(quickList.size - 1) :
       ListRemove(index) /\ UNCHANGED notList
  \/ ListRemoveLast /\ UNCHANGED notList

\* two empty lists and nothing else
InitList == ListInit /\ LockUnused /\ AofUnused /\ ZsetUnused /\ RouteUnused /\ PlanUnused /\ CommitUnused /\ DictUnused /\ ServerUnused /\ FanUnused /\ OverlapUnused /\ GenUnused /\ MigrateUnused /\ ClearUnused /\ SlotsUnused /\ EchoUnused

SpecList == InitList /\ [][ListNext]_vars

\* the indices next to the two ends of the valid ones of a list of the
\* given size
OutOfRange(size) == {-1, size}

\* calls with in-range indices and then one call with an index out of range
ListOobNext ==
  \/ /\ ~listRet.oob
     /\ ListNext
  \/ \E index \in OutOfRange(quickList.size) :
       /\ ~listRet.oob
       /\ ListGet(index)
       /\ UNCHANGED notList
  \/ \E index \in OutOfRange(quickList.size), val \in ListVals :
       /\ ~listRet.oob
       /\ ListSet(index, val)
       /\ UNCHANGED notList
  \/ \E index \in OutOfRange(quickList.size) :
       /\ ~listRet.oob
       /\ ListRemove(index)
       /\ UNCHANGED notList
  \/ \E index \in OutOfRange(quickList.size + 1), val \in ListVals :
       /\ ~listRet.oob
       /\ ListInsert(index, val, 0, 0)
       /\ UNCHANGED notList

SpecListOob == InitList /\ [][ListOobNext]_vars

\* GetPartitionKey and GetSlot on a key
RouteNext ==
  \/ CallGetPartitionKey /\ UNCHANGED notRoute
  \/ CallGetSlot /\ UNCHANGED notRoute

\* a key and nothing else
InitRoute == RouteInit /\ LockUnused /\ AofUnused /\ ZsetUnused /\ ListUnused /\ PlanUnused /\ CommitUnused /\ DictUnused /\ ServerUnused /\ FanUnused /\ OverlapUnused /\ GenUnused /\ MigrateUnused /\ ClearUnused /\ SlotsUnused /\ EchoUnused

SpecRoute == InitRoute /\ [][RouteNext]_vars

\* makeRebalancePlan, step by step
PlanNext ==
  \/ PlanClassify /\ UNCHANGED notPlan
  \/ PlanLoop /\ UNCHANGED notPlan
  \/ PlanReturn /\ UNCHANGED notPlan

\* a cluster and nothing else
InitPlan == PlanInit /\ LockUnused /\ AofUnused /\ ZsetUnused /\ ListUnused /\ RouteUnused /\ CommitUnused /\ DictUnused /\ ServerUnused /\ FanUnused /\ OverlapUnused /\ GenUnused /\ MigrateUnused /\ ClearUnused /\ SlotsUnused /\ EchoUnused

SpecPlan == InitPlan /\ [][PlanNext]_vars

\* the goroutine that runs makeRebalancePlan keeps running
SpecPlanFair == SpecPlan /\ WF_vars(PlanNext)

\* rounds of doRebalance while the nodes join the seed
RebalanceNext ==
  \/ RebalanceJoin /\ UNCHANGED notPlan
  \/ RebalancePlan /\ UNCHANGED notPlan
  \/ RebalanceApply /\ UNCHANGED notPlan
  \/ RebalanceRoundEnd /\ UNCHANGED notPlan

\* the seed node and nothing else
InitRebalance == RebalanceInit /\ LockUnused /\ AofUnused /\ ZsetUnused /\ ListUnused /\ RouteUnused /\ CommitUnused /\ DictUnused /\ ServerUnused /\ FanUnused /\ OverlapUnused /\ GenUnused /\ MigrateUnused /\ ClearUnused /\ SlotsUnused /\ EchoUnused

SpecRebalance == InitRebalance /\ [][RebalanceNext]_vars

\* execMigrationChangeRoute on the leader while the peers commit
CommitNext ==
  \/ ChangeRoutePropose /\ UNCHANGED notCommit
  \/ WaitBorrow /\ UNCHANGED notCommit
  \/ WaitQuery /\ UNCHANGED notCommit
  \/ WaitTimeout /\ UNCHANGED notCommit
  \/ PeerCommit /\ UNCHANGED notCommit

\* one call of the command and nothing else
InitCommit == ChangeRouteInit /\ LockUnused /\ AofUnused /\ ZsetUnused /\ ListUnused /\ RouteUnused /\ PlanUnused /\ DictUnused /\ ServerUnused /\ FanUnused /\ OverlapUnused /\ GenUnused /\ MigrateUnused /\ ClearUnused /\ SlotsUnused /\ EchoUnused

SpecCommit == InitCommit /\ [][CommitNext]_vars

\* the mutators of the ConcurrentDict, called by concurrent goroutines
DictNext ==
  \/ \E g \in DictProcs, op \in DictOps, key \in DictKeys, val \in DictVals :
       DictCall(g, op, key, val) /\ UNCHANGED notDict
  \/ \E g \in DictProcs : DictLock(g) /\ UNCHANGED notDict
  \/ \E g \in DictProcs : DictBody(g) /\ UNCHANGED notDict
  \/ \E g \in DictProcs : DictAddCount(g) /\ UNCHANGED notDict
  \/ \E g \in DictProcs : DictUnlock(g) /\ UNCHANGED notDict

\* a dict and nothing else
InitDict == DictInit /\ LockUnused /\ AofUnused /\ ZsetUnused /\ ListUnused /\ RouteUnused /\ PlanUnused /\ CommitUnused /\ ServerUnused /\ FanUnused /\ OverlapUnused /\ GenUnused /\ MigrateUnused /\ ClearUnused /\ SlotsUnused /\ EchoUnused

SpecDict == InitDict /\ [][DictNext]_vars

\* the mutators called by one goroutine on both dicts
DictSeqNext ==
  \E op \in DictOps, key \in DictKeys, val \in DictVals :
    DictSeqCall(op, key, val) /\ UNCHANGED notDict

\* the two dicts and nothing else
InitDictSeq == DictSeqInit /\ LockUnused /\ AofUnused /\ ZsetUnused /\ ListUnused /\ RouteUnused /\ PlanUnused /\ CommitUnused /\ ServerUnused /\ FanUnused /\ OverlapUnused /\ GenUnused /\ MigrateUnused /\ ClearUnused /\ SlotsUnused /\ EchoUnused

SpecDictSeq == InitDictSeq /\ [][DictSeqNext]_vars

\* a scan of a dict nobody changes, call after call
ScanNext ==
  \/ ScanCall /\ UNCHANGED notDict
  \/ ScanRLock /\ UNCHANGED notDict
  \/ ScanVisit /\ UNCHANGED notDict
  \/ ScanEnd /\ UNCHANGED notDict
  \/ ScanKeysVisit /\ UNCHANGED notDict
  \/ ScanKeysEnd /\ UNCHANGED notDict

\* a dict to scan and nothing else
InitScan == ScanInit /\ LockUnused /\ AofUnused /\ ZsetUnused /\ ListUnused /\ RouteUnused /\ PlanUnused /\ CommitUnused /\ ServerUnused /\ FanUnused /\ OverlapUnused /\ GenUnused /\ MigrateUnused /\ ClearUnused /\ SlotsUnused /\ EchoUnused

SpecScan == InitScan /\ [][ScanNext]_vars

\* the goroutine that calls Put and Remove beside RandomDistinctKeys
Mutator == CHOOSE g \in DictProcs : TRUE

\* one call of RandomDistinctKeys while another goroutine calls Put and
\* Remove
RandNext ==
  \/ \E limit \in 0..MaxLimit : RandCall(limit) /\ UNCHANGED notDict
  \/ \E shardIndex \in 0..(tableSize - 1), key \in DictKeys \cup {EmptyKey} :
       RandPick(shardIndex, key) /\ UNCHANGED notDict
  \/ RandReturn /\ UNCHANGED notDict
  \/ RandKeysMake /\ UNCHANGED notDict
  \/ RandKeysShard /\ UNCHANGED notDict
  \/ RandKeysReturn /\ UNCHANGED notDict
  \/ \E op \in {"Put", "Remove"}, key \in DictKeys :
       DictCall(Mutator, op, key, 1) /\ UNCHANGED notDict
  \/ DictLock(Mutator) /\ UNCHANGED notDict
  \/ DictBody(Mutator) /\ UNCHANGED notDict
  \/ DictAddCount(Mutator) /\ UNCHANGED notDict
  \/ DictUnlock(Mutator) /\ UNCHANGED notDict

\* a dict with some keys and nothing else
InitRand == RandInit /\ LockUnused /\ AofUnused /\ ZsetUnused /\ ListUnused /\ RouteUnused /\ PlanUnused /\ CommitUnused /\ ServerUnused /\ FanUnused /\ OverlapUnused /\ GenUnused /\ MigrateUnused /\ ClearUnused /\ SlotsUnused /\ EchoUnused

SpecRand == InitRand /\ [][RandNext]_vars

\* the steps that are no random choice
RandSteady ==
  \/ RandReturn \/ RandKeysMake \/ RandKeysShard \/ RandKeysReturn
  \/ DictLock(Mutator) \/ DictBody(Mutator) \/ DictAddCount(Mutator)
  \/ DictUnlock(Mutator)

\* the goroutines keep running, and the random number generator and the
\* range over a map keep returning every shard and every key of it: a key
\* that can be picked again and again is picked
SpecRandFair ==
  /\ SpecRand
  /\ WF_vars(RandSteady /\ UNCHANGED notDict)
  /\ \A key \in DictKeys :
       SF_vars(RandPick(Dict_spread(key), key) /\ UNCHANGED notDict)

\* the accept loop, the goroutine that waits for the shutdown, the handlers
\* and the signal
ServerNext ==
  \/ SignalSent /\ UNCHANGED notServer
  \/ CloserSignal /\ UNCHANGED notServer
  \/ CloserError /\ UNCHANGED notServer
  \/ CloserCloseListener /\ UNCHANGED notServer
  \/ CloserCloseHandler /\ UNCHANGED notServer
  \/ AcceptConn /\ UNCHANGED notServer
  \/ \E err \in AcceptErrors : AcceptError(err) /\ UNCHANGED notServer
  \/ HandlerReturn /\ UNCHANGED notServer
  \/ ServeReturn /\ UNCHANGED notServer

\* a server and nothing else
InitServer == ServerInit /\ LockUnused /\ AofUnused /\ ZsetUnused /\ ListUnused /\ RouteUnused /\ PlanUnused /\ CommitUnused /\ DictUnused /\ FanUnused /\ OverlapUnused /\ GenUnused /\ MigrateUnused /\ ClearUnused /\ SlotsUnused /\ EchoUnused

SpecServer == InitServer /\ [][ServerNext]_vars

\* the goroutine that waits for the shutdown keeps running
SpecServerFair ==
  /\ SpecServer
  /\ WF_vars((CloserSignal \/ CloserError \/ CloserCloseListener
                \/ CloserCloseHandler) /\ UNCHANGED notServer)

\* the counts given to the removals by value
RemoveCounts == 0..2

\* any calls that change the QuickList, removals by value included
PagesNext ==
  \/ \E val \in ListVals :
       /\ quickList.size < MaxListLen
       /\ PagesCall("Add", QuickList_Add(quickList, val), 0)
       /\ UNCHANGED notList
  \/ \E index \in 0..quickList.size, val \in ListVals, slack1, slack2 \in Slacks :
       /\ quickList.size < MaxListLen
       /\ PagesCall("Insert", QuickList_Insert(quickList, index, val, slack1, slack2).ql, 0)
       /\ UNCHANGED notList
  \/ \E index \in 0..(quickList.size - 1) :
       /\ PagesCall("Remove", QuickList_Remove(quickList, index).ql, 0)
       /\ UNCHANGED notList
  \/ /\ PagesCall("RemoveLast", QuickList_RemoveLast(quickList).ql, 0)
     /\ UNCHANGED notList
  \/ \E expected \in ListVals :
       LET r == QuickList_RemoveAllByVal(quickList, expected)
       IN  /\ PagesRemoveCall("RemoveAllByVal", expected, 0, r)
           /\ UNCHANGED notList
  \/ \E expected \in ListVals, count \in RemoveCounts :
       LET r == QuickList_RemoveByVal(quickList, expected, count)
       IN  /\ PagesRemoveCall("RemoveByVal", expected, count, [panic |-> FALSE] @@ r)
           /\ UNCHANGED notList
  \/ \E expected \in ListVals, count \in RemoveCounts :
       LET r == QuickList_ReverseRemoveByVal(quickList, expected, count)
       IN  /\ PagesRemoveCall("ReverseRemoveByVal", expected, count, [panic |-> FALSE] @@ r)
           /\ UNCHANGED notList

SpecPages == InitList /\ [][PagesNext]_vars

\* SaveCmdLine calls and writeAof, in the callers or in listenCmd
FanNext ==
  \/ \E c \in Clients, dbIndex \in DBs : FanSaveAlways(c, dbIndex) /\ UNCHANGED notFan
  \/ \E c \in Clients, dbIndex \in DBs : FanSaveSend(c, dbIndex) /\ UNCHANGED notFan
  \/ FanListenRecv /\ UNCHANGED notFan
  \/ \E g \in Writers : FanReset(g) /\ UNCHANGED notFan
  \/ \E g \in Writers : FanLock(g) /\ UNCHANGED notFan
  \/ \E g \in Writers : FanSelect(g) /\ UNCHANGED notFan
  \/ \E g \in Writers : FanCmd(g) /\ UNCHANGED notFan
  \/ \E g \in Writers : FanNotify(g) /\ UNCHANGED notFan
  \/ FanStartGenerateRDB /\ UNCHANGED notFan

\* a persister with listeners and nothing else
InitFan == FanInit /\ LockUnused /\ AofUnused /\ ZsetUnused /\ ListUnused /\ RouteUnused /\ PlanUnused /\ CommitUnused /\ DictUnused /\ ServerUnused /\ OverlapUnused /\ GenUnused /\ MigrateUnused /\ ClearUnused /\ SlotsUnused /\ EchoUnused

SpecFan == InitFan /\ [][FanNext]_vars

\* everything but the persister and its second Rewrite
notAofOverlap == <<lockVars, zsetVars, listVars, routeVars, planVars, commitVars, dictVars, serverVars, fanVars, genVars, migrateVars, clearVars, slotsVars, echoVars>>

\* SaveCmdLine under the always policy with two Rewrite calls that overlap
OverlapNext ==
  \/ \E c \in Clients : SaveCmdLineCall(c) /\ UNCHANGED notAof
  \/ \E c \in Clients : SaveCmdLineWrite(c) /\ UNCHANGED notAof
  \/ StartRewrite /\ UNCHANGED notAof
  \/ DoRewrite /\ UNCHANGED notAof
  \/ FinishRewrite /\ UNCHANGED notAof
  \/ SecondStartRewrite /\ UNCHANGED notAofOverlap
  \/ SecondDoRewrite /\ UNCHANGED notAofOverlap
  \/ SecondFinishRewrite /\ UNCHANGED notAofOverlap

\* a persister under the always policy, with no Rewrite yet, and nothing else
InitOverlap == AofInit /\ LockUnused /\ ZsetUnused /\ ListUnused /\ RouteUnused /\ PlanUnused /\ CommitUnused /\ DictUnused /\ ServerUnused /\ FanUnused /\ GenUnused /\ MigrateUnused /\ ClearUnused /\ SlotsUnused /\ EchoUnused /\ OverlapInit /\ aofFsync = "always"

SpecOverlap == InitOverlap /\ [][OverlapNext]_vars

\* one Rewrite call, each of whose writes to the temp file may fail
GenNext ==
  \/ GenStart /\ UNCHANGED notGen
  \/ \E ok \in BOOLEAN : GenSelect(ok) /\ UNCHANGED notGen
  \/ \E key \in AofKeys, okCmd, okExpire \in BOOLEAN :
       GenKey(key, okCmd, okExpire) /\ UNCHANGED notGen
  \/ GenNextDb /\ UNCHANGED notGen
  \/ GenFinish /\ UNCHANGED notGen

\* a persister about to rewrite, and nothing else
InitGen == GenInit /\ LockUnused /\ AofUnused /\ ZsetUnused /\ ListUnused /\ RouteUnused /\ PlanUnused /\ CommitUnused /\ DictUnused /\ ServerUnused /\ FanUnused /\ OverlapUnused /\ MigrateUnused /\ ClearUnused /\ SlotsUnused /\ EchoUnused

SpecGen == InitGen /\ [][GenNext]_vars

\* doRebalance calls triggerMigrationTask for each task of its plan
MigrateNext ==
  \/ \E ok \in BOOLEAN : TriggerPropose(ok) /\ UNCHANGED notMigrate
  \/ \E ok \in BOOLEAN : TriggerBorrow(ok) /\ UNCHANGED notMigrate
  \/ \E outcome \in SendOutcomes : TriggerSend(outcome) /\ UNCHANGED notMigrate

\* the leader with a plan, and nothing else
InitMigrate == MigrateInit /\ LockUnused /\ AofUnused /\ ZsetUnused /\ ListUnused /\ RouteUnused /\ PlanUnused /\ CommitUnused /\ DictUnused /\ ServerUnused /\ FanUnused /\ OverlapUnused /\ GenUnused /\ ClearUnused /\ SlotsUnused /\ EchoUnused

SpecMigrate == InitMigrate /\ [][MigrateNext]_vars

\* Clear and the mutators of the ConcurrentDict, called concurrently
ClearNext ==
  \/ \E g \in DictProcs, op \in ClearOps, key \in ClearKeys :
       ClearMutatorCall(g, op, key) /\ UNCHANGED notClear
  \/ \E g \in DictProcs : ClearMutatorLock(g) /\ UNCHANGED notClear
  \/ \E g \in DictProcs : ClearMutatorBody(g) /\ UNCHANGED notClear
  \/ \E g \in DictProcs : ClearMutatorCount(g) /\ UNCHANGED notClear
  \/ \E g \in DictProcs : ClearMutatorUnlock(g) /\ UNCHANGED notClear
  \/ ClearCall /\ UNCHANGED notClear
  \/ \E field \in ClearFields : ClearStore(field) /\ UNCHANGED notClear
  \/ ClearReturn /\ UNCHANGED notClear

\* a dict with a goroutine about to clear it, and nothing else
InitClear == ClearInit /\ LockUnused /\ AofUnused /\ ZsetUnused /\ ListUnused /\ RouteUnused /\ PlanUnused /\ CommitUnused /\ DictUnused /\ ServerUnused /\ FanUnused /\ OverlapUnused /\ GenUnused /\ MigrateUnused /\ SlotsUnused /\ EchoUnused

SpecClear == InitClear /\ [][ClearNext]_vars

\* goroutines calling getSlot concurrently
SlotsNext ==
  \/ \E g \in Getters, i \in GetIndices : GetSlotCall(g, i) /\ UNCHANGED notSlots
  \/ \E g \in Getters : GetSlotRLock(g) /\ UNCHANGED notSlots
  \/ \E g \in Getters : GetSlotRead(g) /\ UNCHANGED notSlots
  \/ \E g \in Getters : GetSlotRUnlock(g) /\ UNCHANGED notSlots
  \/ \E g \in Getters : GetSlotLock(g) /\ UNCHANGED notSlots
  \/ \E g \in Getters : GetSlotCheck(g) /\ UNCHANGED notSlots
  \/ \E g \in Getters : GetSlotCreate(g) /\ UNCHANGED notSlots

\* a slotsManager and nothing else
InitSlots == SlotsInit /\ LockUnused /\ AofUnused /\ ZsetUnused /\ ListUnused /\ RouteUnused /\ PlanUnused /\ CommitUnused /\ DictUnused /\ ServerUnused /\ FanUnused /\ OverlapUnused /\ GenUnused /\ MigrateUnused /\ ClearUnused /\ EchoUnused

SpecSlots == InitSlots /\ [][SlotsNext]_vars

\* the goroutines in Handle and the one in Close
EchoNext ==
  \/ \E c \in EchoConns : EchoHandleCheck(c) /\ UNCHANGED notEcho
  \/ \E c \in EchoConns : EchoHandleStore(c) /\ UNCHANGED notEcho
  \/ \E c \in EchoConns : EchoHandleLine(c) /\ UNCHANGED notEcho
  \/ \E c \in EchoConns : EchoHandleError(c) /\ UNCHANGED notEcho
  \/ EchoCloseSet /\ UNCHANGED notEcho
  \/ \E c \in EchoConns : EchoCloseVisit(c) /\ UNCHANGED notEcho
  \/ EchoCloseReturn /\ UNCHANGED notEcho

\* an EchoHandler and nothing else
InitEcho == EchoInit /\ LockUnused /\ AofUnused /\ ZsetUnused /\ ListUnused /\ RouteUnused /\ PlanUnused /\ CommitUnused /\ DictUnused /\ ServerUnused /\ FanUnused /\ OverlapUnused /\ GenUnused /\ MigrateUnused /\ ClearUnused /\ SlotsUnused

SpecEcho == InitEcho /\ [][EchoNext]_vars

=============================================================================
